---- MODULE Spec2Model ----
(***************************************************************************)
(* Obstacle Chess rules engine: board, move legality, state transition and *)
(* game history, modelled from board.py, game.py, move.py, piece.py and    *)
(* common.py.                                                              *)
(*                                                                         *)
(* Coordinates follow common.Position: <<x, y>> with x the column (0 = a)  *)
(* and y the row index of the board text (0 = rank 8, Black's home row;    *)
(* 7 = rank 1, White's home row).  Player values follow common.Player:     *)
(* WHITE = -1, BLACK = 1, and a pawn of player p advances by (0, p).       *)
(***************************************************************************)
EXTENDS Integers, Sequences, FiniteSets, TLC

\* ------------------------------------------------------------------------
\* common.py
\* ------------------------------------------------------------------------

WHITE == -1

BLACK == 1

Player == {WHITE, BLACK}

opponent(p) == IF p = BLACK THEN WHITE ELSE BLACK

P(x, y) == <<x, y>>

Pos == (0 .. 7) \X (0 .. 7)

PosAdd(a, b) == <<a[1] + b[1], a[2] + b[2]>>

PosSub(a, b) == <<a[1] - b[1], a[2] - b[2]>>

Abs(n) == IF n < 0 THEN -n ELSE n

Sgn(n) == IF n = 0 THEN 0 ELSE IF n < 0 THEN -1 ELSE 1

norm(a) == <<Sgn(a[1]), Sgn(a[2])>>

alternate(w) ==
    CASE w = "NORTH" -> "SOUTH"
      [] w = "SOUTH" -> "NORTH"
      [] w = "EAST" -> "WEST"
      [] w = "WEST" -> "EAST"

blocking(w, pos) ==
    CASE w = "NORTH" -> PosAdd(pos, P(0, 1))
      [] w = "SOUTH" -> PosAdd(pos, P(0, -1))
      [] w = "EAST" -> PosAdd(pos, P(1, 0))
      [] w = "WEST" -> PosAdd(pos, P(-1, 0))

\* ------------------------------------------------------------------------
\* piece.py
\* ------------------------------------------------------------------------

NoPiece == [name |-> "none", owner |-> 0]

Piece(n, o) == [name |-> n, owner |-> o]

KnightOffsets ==
    << P(2, 1), P(2, -1), P(-2, 1), P(-2, -1),
       P(1, 2), P(1, -2), P(-1, 2), P(-1, -2) >>

\* ------------------------------------------------------------------------
\* board.py: geometry and walls
\* ------------------------------------------------------------------------

Range(seq) == { seq[i] : i \in 1 .. Len(seq) }

on_board(p) == p[1] >= 0 /\ p[1] < 8 /\ p[2] >= 0 /\ p[2] < 8

get_neighbours(p) ==
    LET cand == << P(p[1] + 1, p[2]), P(p[1] - 1, p[2]),
                   P(p[1], p[2] + 1), P(p[1], p[2] - 1),
                   P(p[1] + 1, p[2] + 1), P(p[1] - 1, p[2] - 1),
                   P(p[1] + 1, p[2] - 1), P(p[1] - 1, p[2] + 1) >>
    IN SelectSeq(cand, on_board)

\* walls holds the wall flags of all tiles: <<tile, side>> is in it when
\* the tile's walls field has the flag of that side.
WallsAt(walls, pos) == { w \in {"NORTH", "SOUTH", "EAST", "WEST"} : <<pos, w>> \in walls }

\* The diagonal case without the test on the tile entered.
DiagBlockedFromSourceOnly(walls, fw, tw, m0, m1, hori_alt, vert_alt) ==
    \/ (m0 \in fw /\ m1 \in fw)
    \/ (m0 \in fw /\ <<hori_alt, m0>> \in walls)
    \/ (m1 \in fw /\ <<vert_alt, m1>> \in walls)

\* The diagonal case without the test on the neighbour in the same column.
DiagBlockedNoColumnPair(walls, fw, tw, m0, m1, hori_alt, vert_alt) ==
    \/ (m0 \in fw /\ m1 \in fw)
    \/ (m0 \in fw /\ <<hori_alt, m0>> \in walls)
    \/ (alternate(m0) \in tw /\ alternate(m1) \in tw)

\* The diagonal case: m0 and m1 are the two sides the step leaves the tile
\* by, fw and tw the wall flags of the tile left and of the tile entered.
DiagBlocked(walls, fw, tw, m0, m1, hori_alt, vert_alt) ==
    \/ (m0 \in fw /\ m1 \in fw)
    \/ (m0 \in fw /\ <<hori_alt, m0>> \in walls)
    \/ (m1 \in fw /\ <<vert_alt, m1>> \in walls)
    \/ (alternate(m0) \in tw /\ alternate(m1) \in tw)

WallBlockedTo(walls, position, direction, to_pos, fw) ==
    IF ~on_board(to_pos) THEN TRUE
    ELSE IF direction[2] = 0
         THEN (direction[1] > 0 /\ "EAST" \in fw)
              \/ (direction[1] < 0 /\ "WEST" \in fw)
    ELSE IF direction[1] = 0
         THEN (direction[2] > 0 /\ "NORTH" \in fw)
              \/ (direction[2] < 0 /\ "SOUTH" \in fw)
    ELSE DiagBlocked(walls, fw, WallsAt(walls, to_pos),
                     IF direction[2] < 0 THEN "SOUTH" ELSE "NORTH",
                     IF direction[1] > 0 THEN "EAST" ELSE "WEST",
                     P(to_pos[1], position[2]), P(position[1], to_pos[2]))

wall_blocked(walls, position, direction) ==
    WallBlockedTo(walls, position, direction,
                  PosAdd(position, direction), WallsAt(walls, position))

RECURSIVE get_line(_, _)
get_line(origin, direction) ==
    IF on_board(origin)
    THEN <<origin>> \o get_line(PosAdd(origin, direction), direction)
    ELSE <<>>

RECURSIVE RunFrom(_, _, _, _)
RunFrom(walls, positions, delta, i) ==
    IF i > Len(positions) THEN <<>>
    ELSE IF wall_blocked(walls, positions[i], delta) THEN <<positions[i]>>
    ELSE <<positions[i]>> \o RunFrom(walls, positions, delta, i + 1)

get_run(walls, positions) ==
    IF Len(positions) < 2 THEN positions
    ELSE RunFrom(walls, positions, norm(PosSub(positions[2], positions[1])), 1)

\* ------------------------------------------------------------------------
\* move.py: the Move variants as records.  PlaceWall carries the wall side
\* (board.py reads move.wall); its destination is the tile across the edge.
\* ------------------------------------------------------------------------

MoveTypes ==
    { "Move", "SemiPromotion", "Promotion", "KingCastle", "QueenCastle",
      "PlaceWall", "PlaceMine", "PlaceTrapdoor", "NullMove" }

MkMove(t, pl, o, d, pr, w) ==
    [type |-> t, player |-> pl, origin |-> o, destination |-> d,
     promotion |-> pr, wall |-> w]

Move(pl, o, d) == MkMove("Move", pl, o, d, "none", "none")

SemiPromotion(pl, o, d) == MkMove("SemiPromotion", pl, o, d, "none", "none")

Promotion(pl, o, d, pr) == MkMove("Promotion", pl, o, d, pr, "none")

NullMove(pl) == MkMove("NullMove", pl, P(0, 0), P(0, 0), "none", "none")

PlaceMine(pl, o) == MkMove("PlaceMine", pl, o, o, "none", "none")

PlaceTrapdoor(pl, o) == MkMove("PlaceTrapdoor", pl, o, o, "none", "none")

PlaceWall(pl, o, w) == MkMove("PlaceWall", pl, o, blocking(w, o), "none", w)

CastleOrigin(pl) == IF pl = WHITE THEN P(4, 7) ELSE P(4, 0)

HomeRow(pl) == IF pl = WHITE THEN 7 ELSE 0

QueenCastle(pl) ==
    MkMove("QueenCastle", pl, CastleOrigin(pl), P(2, HomeRow(pl)), "none", "none")

KingCastle(pl) ==
    MkMove("KingCastle", pl, CastleOrigin(pl), P(6, HomeRow(pl)), "none", "none")

IsCastle(mv) == mv.type \in {"KingCastle", "QueenCastle"}

rook_move(mv) ==
    IF mv.type = "QueenCastle"
    THEN Move(mv.player, P(0, mv.origin[2]), P(2, mv.origin[2]))
    ELSE Move(mv.player, P(7, mv.origin[2]), P(5, mv.origin[2]))

\* Move.__eq__: the move kind and the promotion piece are not compared.
MoveEq(a, b) ==
    a.player = b.player /\ a.origin = b.origin /\ a.destination = b.destination

MoveIn(mv, moves) == \E i \in 1 .. Len(moves) : MoveEq(moves[i], mv)

\* ------------------------------------------------------------------------
\* board.py: attack detection
\* ------------------------------------------------------------------------

ScanKey(p) == p[2] * 8 + p[1]

\* _get_attacker over run[1:]: the first occupied tile of the run, if it
\* holds a piece of the attacking player of one of the given kinds.
RECURSIVE GetAttacker(_, _, _, _, _)
GetAttacker(nodes, run, i, pieces, attacking_player) ==
    IF i > Len(run) THEN {}
    ELSE LET opp == nodes[run[i]].contents
         IN IF opp = NoPiece
            THEN GetAttacker(nodes, run, i + 1, pieces, attacking_player)
            ELSE IF opp.owner = attacking_player /\ opp.name \in pieces
                 THEN {run[i]}
                 ELSE {}

StraightDirs == << P(1, 0), P(-1, 0), P(0, 1), P(0, -1) >>

DiagDirs == << P(1, 1), P(-1, -1), P(1, -1), P(-1, 1) >>

\* The neighbour test: an adjacent king, or a pawn one row behind the tile
\* in its direction of travel and one column aside.
NearAttacker(target, delta, attacking_player) ==
    target.owner = attacking_player
    /\ (target.name = "king"
        \/ (target.name = "pawn"
            /\ target.owner * delta[2] = -1
            /\ Abs(delta[1]) = 1))

\* The eight rays with the kinds of piece that attack along each.
AttackRays ==
    [i \in 1 .. 8 |->
        IF i <= 4 THEN [dir |-> StraightDirs[i], pieces |-> {"queen", "rook"}]
        ELSE [dir |-> DiagDirs[i - 4], pieces |-> {"queen", "bishop"}]]

\* The list the code returns never holds a position twice and is only
\* tested for emptiness, length and membership, so it is kept as a set.
being_attacked_at(b, position, attacking_player) ==
    { p \in Range(get_neighbours(position)) :
        NearAttacker(b.nodes[p].contents, PosSub(p, position), attacking_player) }
    \cup UNION { GetAttacker(b.nodes,
                             get_run(b.walls, get_line(position, AttackRays[i].dir)),
                             2, AttackRays[i].pieces, attacking_player)
                 : i \in 1 .. 8 }
    \cup { q \in { PosAdd(position, KnightOffsets[i]) : i \in 1 .. 8 } :
            on_board(q) /\ b.nodes[q].contents = Piece("knight", attacking_player) }

KingsOf(nodes, pl) == { p \in Pos : nodes[p].contents = Piece("king", pl) }

HasKing(nodes, pl) == KingsOf(nodes, pl) # {}

\* get_kings_pos: a dict filled in scan order, so a later king of the same
\* owner overwrites an earlier one.
KingPos(nodes, pl) ==
    LET ks == KingsOf(nodes, pl)
    IN CHOOSE p \in ks : \A q \in ks : ScanKey(q) <= ScanKey(p)

in_check(b, pl) ==
    HasKing(b.nodes, pl)
    /\ being_attacked_at(b, KingPos(b.nodes, pl), opponent(pl)) # {}

\* in_check() without a player: the first player, in the order their kings
\* were first met, whose king is attacked; 0 when there is none.
FirstKingKey(nodes, pl) ==
    LET ks == { ScanKey(p) : p \in KingsOf(nodes, pl) }
    IN CHOOSE k \in ks : \A j \in ks : k <= j

FirstChecked(nodes, cs) ==
    IF cs = {} THEN 0
    ELSE CHOOSE pl \in cs :
           \A q \in cs : FirstKingKey(nodes, pl) <= FirstKingKey(nodes, q)

in_check_any(b) == FirstChecked(b.nodes, { pl \in Player : in_check(b, pl) })

\* ------------------------------------------------------------------------
\* board.py: state transition.  A board is [nodes, walls, state, turn, im]:
\* nodes maps a tile to [contents, mined, trapdoor], walls holds the wall
\* flags of the tiles, and im is the identity of the initial_moves dict the
\* board refers to (Board.copy passes the reference on); the dicts
\* themselves live in a heap.
\* ------------------------------------------------------------------------

\* Python list indexing: index -1 is the last element.
PyIndex(p) == <<IF p[1] < 0 THEN p[1] + 8 ELSE p[1], IF p[2] < 0 THEN p[2] + 8 ELSE p[2]>>

\* normalise_walls ends in an IndexError when a flag points off the board:
\* index 8 is out of range, and a WEST flag on column 0 or a SOUTH flag on
\* row 0 wraps to the far tile, whose mirrored flag then points to index 8.
NormaliseRaises(walls) ==
    \E f \in walls : ~on_board(blocking(f[2], f[1]))

\* For every wall flag of a tile, the tile across that edge gets the
\* mirrored flag.
normalise_walls(walls) ==
    walls \cup { <<PyIndex(blocking(f[2], f[1])), alternate(f[2])>> : f \in walls }

\* Board.copy: the grid and the state are deep-copied and the copy's
\* constructor normalises its walls; initial_moves is passed by reference.
copy(b) == [b EXCEPT !.walls = normalise_walls(b.walls)]

\* The tiles whose occupant a detonation at pos clears.
BlastTiles(walls, pos) ==
    LET nbs == get_neighbours(pos)
    IN { nbs[i] : i \in { j \in 1 .. Len(nbs) :
            ~wall_blocked(walls, pos, norm(PosSub(nbs[j], pos))) } }

detonate_mine_keeps_clock(b, pos) ==
    [b EXCEPT !.nodes = [p \in Pos |->
        IF p = pos THEN [b.nodes[p] EXCEPT !.contents = NoPiece, !.mined = FALSE]
        ELSE IF p \in BlastTiles(b.walls, pos)
             THEN [b.nodes[p] EXCEPT !.contents = NoPiece]
             ELSE b.nodes[p]]]

detonate_mine(b, pos) ==
    LET blast == BlastTiles(b.walls, pos)
    IN [b EXCEPT
        !.nodes = [p \in Pos |->
            IF p = pos THEN [b.nodes[p] EXCEPT !.contents = NoPiece, !.mined = FALSE]
            ELSE IF p \in blast
                 THEN [b.nodes[p] EXCEPT !.contents = NoPiece]
                 ELSE b.nodes[p]],
        !.state.clock = 0]

NoPos == <<>>

\* move_piece up to the relocation of the piece: clock, en passant,
\* castling rights, the captured pawn, and the piece on its destination.
MovePieceRelocate(b, mv) ==
    LET origin == mv.origin
        dest == mv.destination
        piece == b.nodes[origin].contents
        s0 == IF b.nodes[dest].contents # NoPiece
              THEN [b.state EXCEPT !.clock = 0] ELSE b.state
        isEp == piece.name = "pawn" /\ Abs(origin[2] - dest[2]) # 2
                /\ s0.enpassant # NoPos /\ dest = s0.enpassant
        s1 == IF piece.name = "pawn"
              THEN [s0 EXCEPT
                      !.clock = 0,
                      !.enpassant =
                          IF Abs(origin[2] - dest[2]) = 2
                          THEN P(origin[1], (origin[2] + dest[2]) \div 2)
                          ELSE IF isEp THEN @ ELSE NoPos]
              ELSE IF piece.name = "king"
              THEN [s0 EXCEPT !.enpassant = NoPos,
                              !.castling[piece.owner] = [king |-> FALSE, queen |-> FALSE]]
              ELSE IF piece.name = "rook" /\ origin[1] = 0
              THEN [s0 EXCEPT !.enpassant = NoPos, !.castling[piece.owner].queen = FALSE]
              ELSE IF piece.name = "rook" /\ origin[1] = 7
              THEN [s0 EXCEPT !.enpassant = NoPos, !.castling[piece.owner].king = FALSE]
              ELSE [s0 EXCEPT !.enpassant = NoPos]
        n1 == IF isEp
              THEN [b.nodes EXCEPT ![P(dest[1], origin[2])].contents = NoPiece]
              ELSE b.nodes
        n2 == [n1 EXCEPT ![dest].contents = n1[origin].contents]
        n3 == [n2 EXCEPT ![origin].contents = NoPiece]
    IN [b EXCEPT !.nodes = n3, !.state = s1]

\* The trapdoor step of move_piece.
MovePieceTrapdoor(b, dest) ==
    IF b.nodes[dest].trapdoor # "NONE"
    THEN [b EXCEPT !.state.clock = 0,
                   !.nodes[dest].trapdoor = "OPEN",
                   !.nodes[dest].contents = NoPiece]
    ELSE b

\* The mine step of move_piece.
MovePieceMine(b, dest) ==
    IF b.nodes[dest].mined THEN detonate_mine(b, dest) ELSE b

move_piece(b, mv) ==
    MovePieceTrapdoor(MovePieceMine(MovePieceRelocate(b, mv), mv.destination),
                      mv.destination)

\* _castle: the king is placed first, the rook second.
castle(b, mv) ==
    LET rm == rook_move(mv)
        king_piece == b.nodes[mv.origin].contents
        n1 == [b.nodes EXCEPT ![mv.origin].contents = NoPiece]
        rook_piece == n1[rm.origin].contents
        n2 == [n1 EXCEPT ![rm.origin].contents = NoPiece]
        n3 == [n2 EXCEPT ![mv.destination].contents = king_piece]
        n4 == [n3 EXCEPT ![rm.destination].contents = rook_piece]
    IN [b EXCEPT !.nodes = n4]

place_wall_keeps_reserve(b, mv) ==
    [b EXCEPT !.walls = @ \cup { <<mv.origin, mv.wall>>,
                                 <<PyIndex(blocking(mv.wall, mv.origin)),
                                   alternate(mv.wall)>> }]

place_wall_one_sided(b, mv) ==
    [b EXCEPT !.state.walls[mv.player] = @ - 1,
              !.walls = @ \cup { <<mv.origin, mv.wall>> }]

place_wall(b, mv) ==
    [b EXCEPT !.state.walls[mv.player] = @ - 1,
              !.walls = @ \cup { <<mv.origin, mv.wall>>,
                                 <<PyIndex(blocking(mv.wall, mv.origin)),
                                   alternate(mv.wall)>> }]

\* Promotion: the pawn is moved, then replaced where it stands.
Promote(b, mv) ==
    IF mv.type = "Promotion"
    THEN [b EXCEPT !.nodes[mv.destination].contents = Piece(mv.promotion, mv.player)]
    ELSE b

\* The dispatch of apply_move on the kind of move, on the copy nb.
ApplyKind(nb, mv) ==
    CASE mv.type = "PlaceMine" ->
            [nb EXCEPT !.nodes[mv.origin].mined = TRUE, !.state.clock = 0]
      [] mv.type = "PlaceTrapdoor" ->
            [nb EXCEPT !.nodes[mv.origin].trapdoor = "HIDDEN", !.state.clock = 0]
      [] mv.type = "NullMove" -> nb
      [] mv.type = "PlaceWall" -> place_wall(nb, mv)
      [] IsCastle(mv) -> castle(nb, mv)
      [] OTHER -> Promote(move_piece(nb, mv), mv)

apply_move_keeps_turn(b, mv) ==
    [ApplyKind([copy(b) EXCEPT !.state.clock = @ + 1], mv)
        EXCEPT !.state.player = opponent(@)]

\* apply_move: the board it returns.
apply_move(b, mv) ==
    [ApplyKind([copy(b) EXCEPT !.state.clock = @ + 1], mv)
        EXCEPT !.state.player = opponent(@), !.turn = @ + 1]

\* apply_move's counters with a NullMove that leaves the total alone.
apply_move_heap_null_uncounted(heap, b, mv) ==
    CASE mv.type = "PlaceMine" ->
            [heap EXCEPT ![b.im].mines[mv.player] = @ - 1, ![b.im].total = @ - 1]
      [] mv.type = "PlaceTrapdoor" ->
            [heap EXCEPT ![b.im].trapdoors[mv.player] = @ - 1, ![b.im].total = @ - 1]
      [] OTHER -> heap

\* apply_move: what it does to the heap of initial_moves dicts.  The copy
\* shares the input board's dict, so the decrements land in that dict.
apply_move_heap(heap, b, mv) ==
    CASE mv.type = "PlaceMine" ->
            [heap EXCEPT ![b.im].mines[mv.player] = @ - 1, ![b.im].total = @ - 1]
      [] mv.type = "PlaceTrapdoor" ->
            [heap EXCEPT ![b.im].trapdoors[mv.player] = @ - 1, ![b.im].total = @ - 1]
      [] mv.type = "NullMove" ->
            [heap EXCEPT ![b.im].total = @ - 1]
      [] OTHER -> heap

\* ------------------------------------------------------------------------
\* board.py: move generation
\* ------------------------------------------------------------------------

Opt(cond, x) == IF cond THEN <<x>> ELSE <<>>

RECURSIVE Flatten(_, _)
Flatten(seqs, i) == IF i > Len(seqs) THEN <<>> ELSE seqs[i] \o Flatten(seqs, i + 1)

\* get_potentials, one direction: walk the line from tile i of it.
RECURSIVE Slide(_, _, _, _)
Slide(b, line, i, player) ==
    IF i + 1 > Len(line) THEN <<>>
    ELSE LET posA == line[i]
             posB == line[i + 1]
             target == b.nodes[posB].contents
         IN IF wall_blocked(b.walls, posA, PosSub(posB, posA)) THEN <<>>
            ELSE IF target # NoPiece /\ target.owner = player THEN <<>>
            ELSE IF target # NoPiece THEN <<posB>>
            ELSE <<posB>> \o Slide(b, line, i + 1, player)

get_potentials(b, pos, directions, player) ==
    Flatten([i \in 1 .. Len(directions) |->
                Slide(b, get_line(pos, directions[i]), 1, player)], 1)

BishopDirs == << P(-1, -1), P(-1, 1), P(1, -1), P(1, 1) >>

RookDirs == << P(-1, 0), P(0, -1), P(0, 1), P(1, 0) >>

QueenDirs ==
    << P(-1, -1), P(-1, 0), P(-1, 1), P(0, -1), P(0, 1), P(1, -1), P(1, 0), P(1, 1) >>

ToMoves(player, position, targets) ==
    [i \in 1 .. Len(targets) |-> Move(player, position, targets[i])]

\* int(3.6 + 2.5 * player.value): the row a pawn promotes from.
PrePromotionRow(player) == IF player = WHITE THEN 1 ELSE 6

\* int(3.6 - 2.5 * player.value): the row a pawn starts on.
PawnStartRow(player) == IF player = WHITE THEN 6 ELSE 1

\* A pawn on the row before promotion proposes SemiPromotions.
PawnMove(player, position, d) ==
    IF position[2] = PrePromotionRow(player)
    THEN SemiPromotion(player, position, d)
    ELSE Move(player, position, d)

PawnDiagonal(b, position, player, target) ==
    Opt(on_board(target)
        /\ ~wall_blocked(b.walls, position, PosSub(target, position))
        /\ b.nodes[target].contents # NoPiece
        /\ b.nodes[target].contents.owner # player,
        PawnMove(player, position, target))

\* The en-passant capture: no wall is looked at.
PawnEnPassant(b, position, player, front, target) ==
    Opt(b.state.enpassant # NoPos
        /\ b.state.enpassant[2] = front[2]
        /\ on_board(target)
        /\ target = b.state.enpassant
        /\ (b.nodes[target].contents = NoPiece
            \/ b.nodes[target].contents.owner # player),
        Move(player, position, target))

PawnAhead(b, position, player, front, dfront, frontOk) ==
    Opt(frontOk, PawnMove(player, position, front))
    \o Opt(frontOk /\ on_board(dfront)
             /\ b.nodes[dfront].contents = NoPiece
             /\ position[2] = PawnStartRow(player)
             /\ ~wall_blocked(b.walls, front, PosSub(dfront, front)),
           Move(player, position, dfront))

PawnFrom(b, position, player, front) ==
    PawnAhead(b, position, player, front, PosAdd(position, P(0, player * 2)),
              on_board(front) /\ b.nodes[front].contents = NoPiece
              /\ ~wall_blocked(b.walls, position, PosSub(front, position)))
    \o Flatten([i \in 1 .. 2 |->
                  PawnDiagonal(b, position, player,
                               PosAdd(front, P(2 * i - 3, 0)))], 1)
    \o Flatten([i \in 1 .. 2 |->
                  PawnEnPassant(b, position, player, front,
                                PosAdd(front, P(2 * i - 3, 0)))], 1)

PawnPotentials(b, position, player) ==
    PawnFrom(b, position, player, PosAdd(position, P(0, player)))

KnightPotentials(b, position, player) ==
    Flatten([i \in 1 .. 8 |->
        LET pot_pos == PosAdd(position, KnightOffsets[i])
        IN Opt(on_board(pot_pos)
               /\ (b.nodes[pot_pos].contents = NoPiece
                   \/ b.nodes[pot_pos].contents.owner # player),
               Move(player, position, pot_pos))], 1)

\* potentials.pop(i); break: only the first attacked destination is dropped.
RECURSIVE PopFirstAttacked(_, _, _, _)
PopFirstAttacked(b, moves, i, attacker) ==
    IF i > Len(moves) THEN moves
    ELSE IF being_attacked_at(b, moves[i].destination, attacker) # {}
         THEN SubSeq(moves, 1, i - 1) \o SubSeq(moves, i + 1, Len(moves))
         ELSE PopFirstAttacked(b, moves, i + 1, attacker)

\* The castling test: a path tile is looked at only if it is on the board,
\* not behind a wall and not attacked, and such a tile must be empty.
CastlePathClear(b, position, offsets, player) ==
    \A i \in 1 .. Len(offsets) :
        LET pos == PosAdd(position, offsets[i])
        IN (on_board(pos)
            /\ ~wall_blocked(b.walls, position, PosSub(pos, position))
            /\ being_attacked_at(b, pos, opponent(player)) = {})
           => b.nodes[pos].contents = NoPiece

KingStep(b, position, player, to, target) ==
    Opt((target = NoPiece \/ target.owner # player)
        /\ ~wall_blocked(b.walls, position, PosSub(to, position)),
        Move(player, position, to))

KingSteps(b, position, player, nbs) ==
    Flatten([i \in 1 .. Len(nbs) |->
                KingStep(b, position, player, nbs[i], b.nodes[nbs[i]].contents)], 1)

\* The two castles in the order the code appends them.
CastleOptions(player) ==
    << [right |-> "king", offsets |-> << P(1, 0), P(2, 0) >>,
        move |-> KingCastle(player)],
       [right |-> "queen", offsets |-> << P(-1, 0), P(-2, 0), P(-3, 0) >>,
        move |-> QueenCastle(player)] >>

CastleOption(b, position, player, opt) ==
    Opt(b.state.castling[player][opt.right]
        /\ CastlePathClear(b, position, opt.offsets, player),
        opt.move)

KingPotentials(b, position, player) ==
    PopFirstAttacked([b EXCEPT !.nodes[position].contents = NoPiece],
                     KingSteps(b, position, player, get_neighbours(position)),
                     1, opponent(player))
    \o Flatten([i \in 1 .. 2 |->
                  CastleOption(b, position, player, CastleOptions(player)[i])], 1)

SlideDirs(name) ==
    CASE name = "bishop" -> BishopDirs
      [] name = "rook" -> RookDirs
      [] name = "queen" -> QueenDirs

PiecePotentials(b, position, actor) ==
    CASE actor.name = "pawn" -> PawnPotentials(b, position, actor.owner)
      [] actor.name = "knight" -> KnightPotentials(b, position, actor.owner)
      [] actor.name \in {"bishop", "rook", "queen"} ->
            ToMoves(actor.owner, position,
                    get_potentials(b, position, SlideDirs(actor.name), actor.owner))
      [] actor.name = "king" -> KingPotentials(b, position, actor.owner)
      [] OTHER -> <<>>

Potentials(b, position) == PiecePotentials(b, position, b.nodes[position].contents)

KeepsEveryPotential(b, mv, player) == FALSE

\* The simulation step: a potential stays unless the board it leads to
\* has the mover's king attacked.
LeavesInCheck(b, mv, player) == in_check(apply_move(b, mv), player)

get_moves(b, position) ==
    IF b.nodes[position].contents = NoPiece THEN <<>>
    ELSE LET player == b.nodes[position].contents.owner
             keep(mv) == ~LeavesInCheck(b, mv, player)
         IN SelectSeq(Potentials(b, position), keep)

\* ------------------------------------------------------------------------
\* board.py: validate_move.  The result holds the verdict, the kind of the
\* Failure payload (the error text, or the Move object itself), and the
\* board and heap as the call leaves them.
\* ------------------------------------------------------------------------

ZeroMoves ==
    [total |-> 0,
     mines |-> [pl \in Player |-> 0],
     trapdoors |-> [pl \in Player |-> 0]]

\* The identity of a dict created now: the first one no board of the
\* history refers to.
RECURSIVE FreshFrom(_, _)
FreshFrom(used, i) == IF i \in used THEN FreshFrom(used, i + 1) ELSE i

CoordsOnBoard(mv) ==
    /\ mv.origin[1] \in 0 .. 7 /\ mv.origin[2] \in 0 .. 7
    /\ mv.destination[1] \in 0 .. 7 /\ mv.destination[2] \in 0 .. 7

VResult(ok, payload, b, heap) ==
    [ok |-> ok, payload |-> payload, board |-> b, heap |-> heap]

AllRows == 0 .. 7

\* The rows validate_move allows a mine on, and a trapdoor on.
MineRows == {3, 4}

TrapdoorRows == {2, 3, 4, 5}

\* moves is the list get_moves(mv.origin) returns on this board.
ValidateWith(b, heap, used, mv, moves) ==
    LET im == heap[b.im]
        fail == VResult(FALSE, "text", b, heap)
    IN IF ~CoordsOnBoard(mv) THEN fail
       ELSE IF mv.type = "PlaceMine"
       THEN IF im.mines[mv.player] <= 0 THEN fail
            ELSE IF mv.origin[2] \notin MineRows THEN fail
            ELSE VResult(TRUE, "move", b, heap)
       ELSE IF mv.type = "PlaceTrapdoor"
       THEN IF im.trapdoors[mv.player] <= 0 THEN fail
            ELSE IF mv.origin[2] \notin TrapdoorRows THEN fail
            ELSE VResult(TRUE, "move", b, heap)
       ELSE IF mv.type = "NullMove"
       THEN IF im.trapdoors[mv.player] <= 0 /\ im.mines[mv.player] <= 0 THEN fail
            ELSE VResult(TRUE, "move", b, heap)
       ELSE IF im.total % 2 # 0 THEN fail
       ELSE LET id == FreshFrom(used, 0)
                b1 == [b EXCEPT !.im = id]
                h1 == [i \in (DOMAIN heap) \cup {id} |->
                          IF i = id THEN ZeroMoves ELSE heap[i]]
            IN IF mv.type = "PlaceWall"
               THEN IF <<mv.origin, mv.wall>> \in b.walls
                    THEN VResult(FALSE, "text", b1, h1)
                    ELSE VResult(TRUE, "move", b1, h1)
               ELSE IF ~MoveIn(mv, moves)
                    THEN VResult(FALSE, "move", b1, h1)
                    ELSE VResult(TRUE, "move", b1, h1)

validate_move(b, heap, used, mv) ==
    ValidateWith(b, heap, used, mv, get_moves(b, mv.origin))

\* ------------------------------------------------------------------------
\* board.py: construction from the board text.  A text is given as its
\* tokens: rows[y + 1][x + 1] is the tile character of column x of line y,
\* west and south are the tiles prefixed by "|" and "_", and status is the
\* parsed status line.
\* ------------------------------------------------------------------------

PieceName(ch) ==
    CASE ch \in {"p", "P"} -> "pawn"
      [] ch \in {"n", "N"} -> "knight"
      [] ch \in {"b", "B"} -> "bishop"
      [] ch \in {"r", "R"} -> "rook"
      [] ch \in {"q", "Q"} -> "queen"
      [] ch \in {"k", "K"} -> "king"
      [] OTHER -> "none"

UpperChars == {"P", "N", "B", "R", "Q", "K"}

TileChars ==
    {".", "D", "O", "M", "X"} \cup UpperChars \cup {"p", "n", "b", "r", "q", "k"}

BoardNode(contents, mined, trapdoor) ==
    [contents |-> contents, mined |-> mined, trapdoor |-> trapdoor]

NodeFromStr(ch) ==
    CASE ch = "." -> BoardNode(NoPiece, FALSE, "NONE")
      [] ch = "D" -> BoardNode(NoPiece, FALSE, "HIDDEN")
      [] ch = "O" -> BoardNode(NoPiece, FALSE, "OPEN")
      [] ch = "M" -> BoardNode(NoPiece, TRUE, "NONE")
      [] ch = "X" -> BoardNode(NoPiece, TRUE, "HIDDEN")
      [] OTHER -> BoardNode(Piece(PieceName(ch), IF ch \in UpperChars THEN WHITE ELSE BLACK),
                            FALSE, "NONE")

BoardState(player, walls, castling, enpassant, clock) ==
    [player |-> player,
     walls |-> [pl \in Player |-> IF pl = WHITE THEN walls[1] ELSE walls[2]],
     castling |-> [pl \in Player |->
                     IF pl = WHITE THEN [king |-> castling[1], queen |-> castling[2]]
                     ELSE [king |-> castling[3], queen |-> castling[4]]],
     enpassant |-> enpassant,
     clock |-> clock]

standard_state == BoardState(WHITE, <<3, 3>>, <<TRUE, TRUE, TRUE, TRUE>>, NoPos, 0)

EmptyRow == << ".", ".", ".", ".", ".", ".", ".", "." >>

standard_board_str ==
    [rows |-> << << "r", "n", "b", "q", "k", "b", "n", "r" >>,
                 << "p", "p", "p", "p", "p", "p", "p", "p" >>,
                 EmptyRow, EmptyRow, EmptyRow, EmptyRow,
                 << "P", "P", "P", "P", "P", "P", "P", "P" >>,
                 << "R", "N", "B", "Q", "K", "B", "N", "R" >> >>,
     west |-> {}, south |-> {},
     status |-> standard_state]

TextWalls(text) ==
    { <<p, "WEST">> : p \in text.west } \cup { <<p, "SOUTH">> : p \in text.south }

\* The text is accepted: every tile character is known, no "|" on column
\* a, no "_" on the last line, the status line matches its pattern, and
\* the constructor's wall normalisation stays inside the grid.
FromStrsAccepts(text) ==
    /\ \A y \in 1 .. 8 : \A x \in 1 .. 8 : text.rows[y][x] \in TileChars
    /\ \A p \in text.west : p[1] # 0
    /\ \A p \in text.south : p[2] # 7
    /\ ~NormaliseRaises(TextWalls(text))
    /\ text.status.walls[WHITE] \in 0 .. 3 /\ text.status.walls[BLACK] \in 0 .. 3
    /\ text.status.enpassant # NoPos => text.status.enpassant[1] \in 0 .. 6
    /\ text.status.clock >= 0

\* initial_moves as from_strs sets it: the counters are the booleans _init,
\* which is True only for the standard starting text.
InitialMoves(text) ==
    LET init == IF text = standard_board_str THEN 1 ELSE 0
    IN [total |-> 4,
        mines |-> [pl \in Player |-> init],
        trapdoors |-> [pl \in Player |-> init]]

from_strs(text) ==
    [nodes |-> [p \in Pos |-> NodeFromStr(text.rows[p[2] + 1][p[1] + 1])],
     walls |-> normalise_walls(TextWalls(text)),
     state |-> text.status, turn |-> 1, im |-> 0]

\* ------------------------------------------------------------------------
\* game.py: Game.validate, a scan of the tiles in row order.
\* ------------------------------------------------------------------------

PieceNames == {"pawn", "knight", "bishop", "rook", "queen", "king"}

ScanStart ==
    [ok |-> TRUE, mines |-> 0, trapdoors |-> 0, walls |-> 0,
     promotions |-> [pl \in Player |-> 0],
     pieces |-> [pl \in Player |-> [n \in PieceNames |-> 0]]]

ScanTile(acc, node, flags, x, y) ==
    LET td == IF node.trapdoor \in {"OPEN", "HIDDEN"} THEN acc.trapdoors + 1 ELSE acc.trapdoors
        tdBad == node.trapdoor \in {"OPEN", "HIDDEN"} /\ (y \notin {2, 3, 4, 5} \/ td > 2)
        mn == IF node.mined THEN acc.mines + 1 ELSE acc.mines
        mnBad == node.mined /\ (y \notin {3, 4} \/ mn > 2)
        wl == acc.walls + (IF "SOUTH" \in flags THEN 1 ELSE 0)
                        + (IF "WEST" \in flags THEN 1 ELSE 0)
        wlBad == \/ ("SOUTH" \in flags /\ y = 7)
                 \/ ("WEST" \in flags /\ x = 0)
                 \/ (flags \cap {"SOUTH", "WEST"} # {} /\ wl > 6)
        c == node.contents
        pcs == IF c = NoPiece THEN acc.pieces
               ELSE [acc.pieces EXCEPT ![c.owner][c.name] = @ + 1]
        allowed == 8 - pcs[c.owner]["pawn"]
        promo == IF c = NoPiece THEN acc.promotions
                 ELSE IF c.name \in {"rook", "bishop", "knight"} /\ pcs[c.owner][c.name] > 2
                 THEN [acc.promotions EXCEPT ![c.owner] = @ + 1]
                 ELSE IF c.name = "queen" /\ pcs[c.owner]["queen"] > 1
                 THEN [acc.promotions EXCEPT ![c.owner] = @ + 1]
                 ELSE acc.promotions
        pcBad == c # NoPiece
                 /\ \/ (c.name = "pawn"
                        /\ (pcs[c.owner]["pawn"] > 8
                            \/ allowed < promo[c.owner]
                            \/ y \in {0, 7}))
                    \/ (c.name = "king" /\ pcs[c.owner]["king"] > 1)
                    \/ promo[c.owner] > allowed
    IN [ok |-> acc.ok /\ ~tdBad /\ ~mnBad /\ ~wlBad /\ ~pcBad,
        mines |-> mn, trapdoors |-> td, walls |-> wl,
        promotions |-> promo, pieces |-> pcs]

\* One row of the scan, from column x on; the scan stops at the first tile
\* that fails.
RECURSIVE ScanRow(_, _, _, _)
ScanRow(b, acc, y, x) ==
    IF x > 7 \/ ~acc.ok THEN acc
    ELSE ScanRow(b, ScanTile(acc, b.nodes[P(x, y)], WallsAt(b.walls, P(x, y)), x, y),
                 y, x + 1)

RECURSIVE ScanRows(_, _, _)
ScanRows(b, acc, y) ==
    IF y > 7 THEN acc ELSE ScanRows(b, ScanRow(b, acc, y, 0), y + 1)

Scan(b) == ScanRows(b, ScanStart, 0)

SumPieces(pcs) ==
    pcs["pawn"] + pcs["knight"] + pcs["bishop"] + pcs["rook"] + pcs["queen"] + pcs["king"]

\* The checks that follow the scan.
ValidateTotals(b, acc) ==
    /\ acc.ok
    /\ \A pl \in Player : SumPieces(acc.pieces[pl]) <= 16
    /\ acc.pieces[WHITE]["king"] >= 1 /\ acc.pieces[BLACK]["king"] >= 1
    /\ acc.walls + b.state.walls[WHITE] + b.state.walls[BLACK] = 6

validate(b) == ValidateTotals(b, Scan(b))

\* ------------------------------------------------------------------------
\* board.py: canonical text, equality, stalemate and checkmate
\* ------------------------------------------------------------------------

\* Piece.canonical: the letter, upper case for White.
PieceLetter(c) ==
    LET w == c.owner = WHITE
    IN CASE c.name = "pawn" -> IF w THEN "P" ELSE "p"
         [] c.name = "knight" -> IF w THEN "N" ELSE "n"
         [] c.name = "bishop" -> IF w THEN "B" ELSE "b"
         [] c.name = "rook" -> IF w THEN "R" ELSE "r"
         [] c.name = "queen" -> IF w THEN "Q" ELSE "q"
         [] c.name = "king" -> IF w THEN "K" ELSE "k"

\* BoardNode.canonical as the sequence of its characters.  An empty mined
\* tile with an open trapdoor prints nothing but its walls.
NodeCanonical(node, flags) ==
    LET body == IF node.contents = NoPiece
                THEN IF node.mined
                     THEN IF node.trapdoor = "HIDDEN" THEN << "X" >>
                          ELSE IF node.trapdoor = "NONE" THEN << "M" >>
                          ELSE << >>
                     ELSE IF node.trapdoor = "HIDDEN" THEN << "D" >>
                          ELSE IF node.trapdoor = "OPEN" THEN << "O" >>
                          ELSE << "." >>
                ELSE << PieceLetter(node.contents) >>
        south == IF "SOUTH" \in flags THEN << "_" >> \o body ELSE body
    IN IF "WEST" \in flags THEN << "|" >> \o south ELSE south

RowCanonical(b, y) ==
    Flatten([x \in 1 .. 8 |->
                NodeCanonical(b.nodes[P(x - 1, y)], WallsAt(b.walls, P(x - 1, y)))], 1)

\* Board.__eq__: the rows of the canonical text, without the status line.
BoardEq(a, b) ==
    \A y \in 0 .. 7 : RowCanonical(a, y) = RowCanonical(b, y)

\* ------------------------------------------------------------------------
\* The board text as it is written: eight lines of characters and the
\* status line as its blocks, each block the sequence of its characters.
\* ------------------------------------------------------------------------

DigitChars == << "0", "1", "2", "3", "4", "5", "6", "7", "8", "9" >>

FileChars == << "a", "b", "c", "d", "e", "f", "g", "h" >>

IsDigit(ch) == \E d \in 1 .. 10 : DigitChars[d] = ch

DigitValue(ch) == (CHOOSE d \in 1 .. 10 : DigitChars[d] = ch) - 1

\* int() of a string of digits.
RECURSIVE IntOf(_)
IntOf(ds) ==
    IF Len(ds) = 0 THEN 0
    ELSE IntOf(SubSeq(ds, 1, Len(ds) - 1)) * 10 + DigitValue(ds[Len(ds)])

\* str() of a natural number.
RECURSIVE StrOf(_)
StrOf(n) ==
    IF n < 10 THEN << DigitChars[n + 1] >>
    ELSE StrOf(n \div 10) \o << DigitChars[(n % 10) + 1] >>

PositionFromStr(str) ==
    P((CHOOSE f \in 1 .. 8 : FileChars[f] = str[1]) - 1, 8 - DigitValue(str[2]))

PositionCanonical(pos) == << FileChars[pos[1] + 1] >> \o StrOf(8 - pos[2])

\* The pattern of BoardState.from_str, matched at the start of the line:
\* the clock only has to begin with a digit, and whatever follows it on
\* the line is not looked at.
StatusMatches(blocks) ==
    /\ Len(blocks) >= 9
    /\ blocks[1] \in { << "w" >>, << "b" >> }
    /\ \A i \in {2, 3} : blocks[i] \in { << "0" >>, << "1" >>, << "2" >>, << "3" >> }
    /\ \A i \in 4 .. 7 : blocks[i] \in { << "+" >>, << "-" >> }
    /\ \/ blocks[8] = << "-" >>
       \/ /\ Len(blocks[8]) = 2
          /\ \E f \in 1 .. 7 : FileChars[f] = blocks[8][1]
          /\ \E r \in 2 .. 9 : DigitChars[r] = blocks[8][2]
    /\ Len(blocks[9]) > 0 /\ IsDigit(blocks[9][1])

\* int(blocks[8]) succeeds.
ClockReadable(blocks) == \A i \in 1 .. Len(blocks[9]) : IsDigit(blocks[9][i])

BoardStateFromStr(blocks) ==
    BoardState(IF blocks[1] = << "w" >> THEN WHITE ELSE BLACK,
               << DigitValue(blocks[2][1]), DigitValue(blocks[3][1]) >>,
               [i \in 1 .. 4 |-> blocks[3 + i] = << "+" >>],
               IF blocks[8] = << "-" >> THEN NoPos ELSE PositionFromStr(blocks[8]),
               IntOf(blocks[9]))

BoardStateCanonical(st) ==
    << << IF st.player = WHITE THEN "w" ELSE "b" >>,
       StrOf(st.walls[WHITE]), StrOf(st.walls[BLACK]),
       << IF st.castling[WHITE].king THEN "+" ELSE "-" >>,
       << IF st.castling[WHITE].queen THEN "+" ELSE "-" >>,
       << IF st.castling[BLACK].king THEN "+" ELSE "-" >>,
       << IF st.castling[BLACK].queen THEN "+" ELSE "-" >>,
       IF st.enpassant = NoPos THEN << "-" >> ELSE PositionCanonical(st.enpassant),
       StrOf(st.clock) >>

\* _board_list_transform on one line: each character that is not a
\* modifier, with the modifiers written before it; "#" closes the line.
RECURSIVE Transform(_, _, _)
Transform(chars, i, mod_list) ==
    IF i > Len(chars) THEN << >>
    ELSE IF chars[i] \in {"|", "_"}
         THEN Transform(chars, i + 1, Append(mod_list, chars[i]))
         ELSE << [ch |-> chars[i], mods |-> mod_list] >> \o Transform(chars, i + 1, << >>)

board_list_transform(line) == Transform(line \o << "#" >>, 1, << >>)

\* The tests from_strs makes on the entry of column x of line y.
EntryAccepted(e, x, y) ==
    IF e.ch = "#" THEN x = 8 /\ e.mods = << >>
    ELSE /\ x <= 7
         /\ e.ch \in TileChars
         /\ Len(e.mods) <= 2
         /\ Len(e.mods) = 2 => e.mods[1] # e.mods[2]
         /\ "|" \in Range(e.mods) => x # 0
         /\ "_" \in Range(e.mods) => y # 7

LineAccepted(row_list, y) ==
    /\ Len(row_list) = 9
    /\ \A i \in 1 .. Len(row_list) : EntryAccepted(row_list[i], i - 1, y)

\* What from_strs reads off the lines: the tile characters, the tiles
\* carrying each modifier and the parsed status line.
Tokens(lines) ==
    [rows |-> [y \in 1 .. 8 |-> [x \in 1 .. 8 |-> board_list_transform(lines.rows[y])[x].ch]],
     west |-> { p \in Pos :
                 "|" \in Range(board_list_transform(lines.rows[p[2] + 1])[p[1] + 1].mods) },
     south |-> { p \in Pos :
                 "_" \in Range(board_list_transform(lines.rows[p[2] + 1])[p[1] + 1].mods) },
     status |-> BoardStateFromStr(lines.status)]

LinesAccepted(lines) ==
    /\ \A y \in 1 .. 8 : LineAccepted(board_list_transform(lines.rows[y]), y - 1)
    /\ StatusMatches(lines.status)
    /\ ClockReadable(lines.status)
    /\ FromStrsAccepts(Tokens(lines))

\* Board.canonical: the rows of the tiles and the status line.
BoardCanonical(b) ==
    [rows |-> [y \in 1 .. 8 |-> RowCanonical(b, y - 1)],
     status |-> BoardStateCanonical(b.state)]

\* The lines of a text given by its tokens, in the canonical spelling.
Lines(text) ==
    [rows |-> [y \in 1 .. 8 |->
                 Flatten([x \in 1 .. 8 |->
                            (IF P(x - 1, y - 1) \in text.west THEN << "|" >> ELSE << >>)
                            \o (IF P(x - 1, y - 1) \in text.south THEN << "_" >> ELSE << >>)
                            \o << text.rows[y][x] >>], 1)],
     status |-> BoardStateCanonical(text.status)]

HasMoves(b, pl) ==
    \E p \in Pos : b.nodes[p].contents.owner = pl /\ get_moves(b, p) # << >>

\* stalemate(): the first player left in the list [WHITE, BLACK] after the
\* scan has removed every player owning a piece with a move; 0 for None.
FirstOf(stuck) ==
    IF WHITE \in stuck THEN WHITE ELSE IF BLACK \in stuck THEN BLACK ELSE 0

stalemate(b) == FirstOf({ pl \in Player : ~HasMoves(b, pl) })

\* get_between ends in an IndexError when end is not on the line that
\* leaves start in the direction norm(end - start).
BetweenRaises(start, end) ==
    LET line == get_line(start, norm(PosSub(end, start)))
    IN \A i \in 1 .. Len(line) : line[i] # end

RECURSIVE BetweenUpTo(_, _, _)
BetweenUpTo(line, end, i) ==
    IF i > Len(line) \/ line[i] = end THEN << >>
    ELSE << line[i] >> \o BetweenUpTo(line, end, i + 1)

get_between(start, end) ==
    BetweenUpTo(get_line(start, norm(PosSub(end, start))), end, 1)

\* checkmate(): [raised, player], player 0 for None.  The closing loop over
\* the attackers compares positions with Move objects, which are never
\* equal, so it returns nothing before the final "return player".
CheckmateNone == [raised |-> FALSE, player |-> 0]

\* The wall-block branch, for the single attacker of the king.
CheckmateWalls(b, player, king_pos, attacker, delta) ==
    IF delta[1] = 0 \/ delta[2] = 0 THEN CheckmateNone
    ELSE IF BetweenRaises(king_pos, attacker)
         THEN [raised |-> TRUE, player |-> 0]
    ELSE IF \E p \in Range(get_between(king_pos, attacker)) : WallsAt(b.walls, p) # {}
         THEN CheckmateNone
    ELSE [raised |-> FALSE, player |-> player]

CheckmateEscapeUnattacked(b, popped, player, nbs) ==
    \E i \in 1 .. Len(nbs) :
        ~(b.nodes[nbs[i]].contents # NoPiece
          /\ b.nodes[nbs[i]].contents.owner = player)

\* The escape test: a neighbour of the king, with the king taken off the
\* board, that is not attacked and not held by a piece of the player.
CheckmateEscape(b, popped, player, nbs) ==
    \E i \in 1 .. Len(nbs) :
        /\ being_attacked_at(popped, nbs[i], opponent(player)) = {}
        /\ ~(b.nodes[nbs[i]].contents # NoPiece
             /\ b.nodes[nbs[i]].contents.owner = player)

CheckmateAttackers(b, player, king_pos, attacking_positions) ==
    IF b.state.walls[player] > 0 /\ Cardinality(attacking_positions) = 1
    THEN CheckmateWalls(b, player, king_pos,
                        CHOOSE a \in attacking_positions : TRUE,
                        norm(PosSub(CHOOSE a \in attacking_positions : TRUE, king_pos)))
    ELSE [raised |-> FALSE, player |-> player]

CheckmateOf(b, player, king_pos) ==
    IF CheckmateEscape(b, [b EXCEPT !.nodes[king_pos].contents = NoPiece],
                       player, get_neighbours(king_pos))
    THEN CheckmateNone
    ELSE CheckmateAttackers(b, player, king_pos,
                            being_attacked_at(b, king_pos, opponent(player)))

CheckmateFor(b, player) ==
    IF player = 0 THEN CheckmateNone
    ELSE CheckmateOf(b, player, KingPos(b.nodes, player))

checkmate(b) == CheckmateFor(b, in_check_any(b))

\* ------------------------------------------------------------------------
\* game.py: threefold_repetition and play_next
\* ------------------------------------------------------------------------

threefold_repetition(b, hist) ==
    /\ Len(hist) > 3
    /\ Cardinality({ i \in 1 .. Len(hist) : BoardEq(b, hist[i].board) }) >= 3

NoMove == MkMove("none", 0, NoPos, NoPos, "none", "none")

\* What a play_next call leaves behind for its caller: whether it returned
\* a Success, whether it ended in an exception, the signal flags, the kind
\* of the move it was given and, for a played move, the move itself.
Outcome(ok, raised, sig, kind, mv) ==
    [ok |-> ok, raised |-> raised, sig |-> sig, kind |-> kind, move |-> mv]

\* The identities of the dicts the boards of a stack refer to.
StackIds(stack) == { stack[i].board.im : i \in 1 .. Len(stack) }

\* The dicts some board still refers to.
Live(heap, b, hist) ==
    LET ids == {b.im} \cup StackIds(hist)
    IN [i \in ids |-> heap[i]]

\* play_next on a fetched move.  The Failure of validate_move is unwrapped
\* and asked for its canonical text, which only a Move payload has.
Signals(nb, hist2, mv, cm) ==
    (IF in_check(nb, opponent(mv.player)) THEN {"CHECK"}
     ELSE IF stalemate(nb) # 0 THEN {"STALEMATE"} ELSE {})
    \cup (IF nb.state.clock >= 100 THEN {"FIFTY_AVAILABLE"} ELSE {})
    \cup (IF threefold_repetition(nb, hist2) THEN {"THREEFOLD_AVAILABLE"} ELSE {})
    \cup (IF in_check(nb, mv.player) THEN {"ILLEGAL_MOVE"} ELSE {})
    \cup (IF cm.player # 0 THEN {"CHECKMATE"} ELSE {})

PlayFinish(nb, h2, hist2, kept, done, mv, cm) ==
    [board |-> nb, heap |-> Live(h2, nb, hist2 \o kept), history |-> hist2,
     completed |-> (done \/ (~cm.raised /\ cm.player # 0)),
     last |-> IF cm.raised THEN Outcome(FALSE, TRUE, {}, mv.type, mv)
              ELSE Outcome(TRUE, FALSE, Signals(nb, hist2, mv, cm), mv.type, mv)]

PlayApplied(nb, h2, hist2, kept, done, mv) ==
    PlayFinish(nb, h2, hist2, kept, done, mv, checkmate(nb))

PlayValidated(r, hist, kept, done, mv) ==
    IF ~r.ok
    THEN [board |-> r.board, heap |-> Live(r.heap, r.board, hist \o kept),
          history |-> hist, completed |-> done,
          last |-> Outcome(FALSE, r.payload = "text", {}, mv.type, NoMove)]
    ELSE PlayApplied(apply_move(r.board, mv),
                     apply_move_heap(r.heap, r.board, mv),
                     Append(hist, [move |-> mv, board |-> r.board]),
                     kept, done, mv)

\* kept is the redo stack: play_next leaves it alone, and its boards keep
\* their dicts alive.
play_next(b, heap, hist, kept, done, mv, moves) ==
    PlayValidated(ValidateWith(b, heap, StackIds(hist \o kept), mv, moves),
                  hist, kept, done, mv)

\* What play_all hands back after its loop: status "none" when it falls
\* off its end, "failure" for the Failure naming the trailing move, and
\* "raised" when building that Failure ends in an exception; move is the
\* trailing move the source supplied.
Returned(status, mv) == [status |-> status, move |-> mv]

NotReturned == Returned("running", NoMove)

\* The end of play_all on a trailing move: get_next_move validates it on
\* the final board, and the payload is asked for its canonical text.
PlayAllTrailing(r, hist, kept, mv) ==
    [board |-> r.board, heap |-> Live(r.heap, r.board, hist \o kept),
     returned |-> Returned(IF ~r.ok /\ r.payload = "text" THEN "raised"
                           ELSE "failure", mv)]

play_all_tail(b, heap, hist, kept, mv, moves) ==
    PlayAllTrailing(ValidateWith(b, heap, StackIds(hist \o kept), mv, moves),
                    hist, kept, mv)

\* The part of a Game that undo and redo work on.
GameOf(b, heap, hist, redo) ==
    [board |-> b, heap |-> heap, history |-> hist, redo_stack |-> redo]

\* undo(): the top entry of history goes to the redo stack and its board
\* becomes the current board.
UndoTop(g, past, rest) ==
    GameOf(past.board,
           Live(g.heap, past.board, rest \o Append(g.redo_stack, past)),
           rest, Append(g.redo_stack, past))

undo(g) ==
    IF Len(g.history) = 0 THEN g
    ELSE UndoTop(g, g.history[Len(g.history)], SubSeq(g.history, 1, Len(g.history) - 1))

\* redo(): the top entry of the redo stack goes back to history and its
\* board, the board the move was played on, becomes the current board.
RedoTop(g, future, rest) ==
    GameOf(future.board,
           Live(g.heap, future.board, Append(g.history, future) \o rest),
           Append(g.history, future), rest)

redo(g) ==
    IF Len(g.redo_stack) = 0 THEN g
    ELSE RedoTop(g, g.redo_stack[Len(g.redo_stack)],
                 SubSeq(g.redo_stack, 1, Len(g.redo_stack) - 1))

\* ------------------------------------------------------------------------
\* Starting texts.  tactical_board_str is a middle-game position:
\*   8  . . . . . . . .      White: Ke1, Ra1, Rh1 (both castling rights),
\*   7  . P . . . . . .             Nd2 pinned by the bishop on a5, pawns
\*   6  . . . . . k . .             b7 (about to promote) and d5
\*   5  b . . _P _p D M .    Black: Kf6, Ba5, pawn e5 which has just made
\*   4  . . . . . . . .             its double step (en-passant target e6)
\*   3  . . . . . . . .      walls south of d5 and e5 and between e1 and f1,
\*   2  . . . N . . . .      a hidden trapdoor on f5 and a mine on g5
\*   1  R . . . K |. . R
\* ------------------------------------------------------------------------

tactical_board_str ==
    [rows |-> << EmptyRow,
                 << ".", "P", ".", ".", ".", ".", ".", "." >>,
                 << ".", ".", ".", ".", ".", "k", ".", "." >>,
                 << "b", ".", ".", "P", "p", "D", "M", "." >>,
                 EmptyRow, EmptyRow,
                 << ".", ".", ".", "N", ".", ".", ".", "." >>,
                 << "R", ".", ".", ".", "K", ".", ".", "R" >> >>,
     west |-> { P(5, 7) }, south |-> { P(3, 3), P(4, 3) },
     status |-> BoardState(WHITE, <<2, 1>>, <<TRUE, TRUE, FALSE, FALSE>>, P(4, 2), 0)]

\* ------------------------------------------------------------------------
\* hazard_board_str is a position around the obstacles:
\*   8  . . . r k . . .      White: Ke1, Ra1, Rh1 (both castling rights),
\*   7  . . p . . . . .             Ng1, pawns b4, e4, f3
\*   6  . p O . . . . .      Black: Ke8, Rd8 (open d-file), Ne5, pawns c7,
\*   5  . D . . n . p .             b6, g5, g4
\*   4  . P . . _P M |p .    a mine on f4, a hidden trapdoor on b5, an open
\*   3  . . . . . P . .      one on c6; wall flags WEST on g4 and f1 and
\*   2  . . . . . . . .      SOUTH on e4
\*   1  R . . . K |. N R
\* ------------------------------------------------------------------------

hazard_board_str ==
    [rows |-> << << ".", ".", ".", "r", "k", ".", ".", "." >>,
                 << ".", ".", "p", ".", ".", ".", ".", "." >>,
                 << ".", "p", "O", ".", ".", ".", ".", "." >>,
                 << ".", "D", ".", ".", "n", ".", "p", "." >>,
                 << ".", "P", ".", ".", "P", "M", "p", "." >>,
                 << ".", ".", ".", ".", ".", "P", ".", "." >>,
                 EmptyRow,
                 << "R", ".", ".", ".", "K", ".", "N", "R" >> >>,
     west |-> { P(6, 4), P(5, 7) }, south |-> { P(4, 4) },
     status |-> BoardState(WHITE, <<2, 1>>, <<TRUE, TRUE, FALSE, FALSE>>, NoPos, 7)]

\* ------------------------------------------------------------------------
\* smother_board_str is a position one knight move from a smothered king:
\*   8  . . . . . . r k      White: Ke1, Ng5
\*   7  . . . . . . p p      Black: Kh8, Rg8, pawns g7, h7
\*   5  . . . . . . N .      no wall on the board, three in each reserve
\*   1  . . . . K . . .
\* ------------------------------------------------------------------------

smother_board_str ==
    [rows |-> << << ".", ".", ".", ".", ".", ".", "r", "k" >>,
                 << ".", ".", ".", ".", ".", ".", "p", "p" >>,
                 EmptyRow,
                 << ".", ".", ".", ".", ".", ".", "N", "." >>,
                 EmptyRow, EmptyRow, EmptyRow,
                 << ".", ".", ".", ".", "K", ".", ".", "." >> >>,
     west |-> {}, south |-> {},
     status |-> BoardState(WHITE, <<3, 3>>, <<FALSE, FALSE, FALSE, FALSE>>, NoPos, 0)]

\* late_board_str is the position of tactical_board_str late in a game,
\* with 99 on the halfmove clock of its status line.
late_board_str == [tactical_board_str EXCEPT !.status.clock = 99]

\* ------------------------------------------------------------------------
\* Bounds and the sets the move source draws from
\* ------------------------------------------------------------------------

MaxPly == 2

MaxPhasePly == 5

MaxUndoPly == 3

MaxHazardPly == 2

MaxSmotherPly == 2

MaxTrapPly == 3

MaxMatePly == 4

WallSquares == { P(5, 7), P(3, 5) }

WallSides == { "SOUTH", "WEST" }

ObstacleSquares == { P(3, 4), P(4, 5), P(4, 6) }

PhaseSquares == { P(3, 4), P(4, 2) }

PhaseOrigins == { P(4, 6) }

PromotionMenu == { "queen", "king" }

HazardPromoters == { P(5, 5), P(1, 4), P(6, 7) }

\* The spellings tried for the tile d5 of tactical_board_str, for the clock
\* of its status line and for what follows the clock on that line.
TileMenu ==
    { << "_", "P" >>, << "|", "_", "P" >>, << "_", "|", "P" >>, << "P" >>,
      << "_", "_", "P" >>, << "_", "?" >>, << "_", "P", "P" >> }

ClockMenu == { << "0" >>, << "7" >>, << "0", "7" >>, << "1", "2" >>, << "7", "x" >> }

RestMenu == { << >>, << << "x" >> >> }

TextWith(tile, clock, rest, player) ==
    [rows |-> [Lines(tactical_board_str).rows EXCEPT
                  ![4] = << "b", ".", "." >> \o tile \o << "_", "p", "D", "M", "." >>],
     status |-> [BoardStateCanonical(tactical_board_str.status) EXCEPT
                    ![1] = player, ![9] = clock] \o rest]

\* tactical_board_str with a south wall written on a8, on the first line.
RankEightText ==
    [Lines(tactical_board_str) EXCEPT
        !.rows[1] = << "_", ".", ".", ".", ".", ".", ".", ".", "." >>]

BoardTexts ==
    { TextWith(tile, clock, rest, player) :
        tile \in TileMenu, clock \in ClockMenu, rest \in RestMenu,
        player \in { << "w" >>, << "b" >> } }
    \cup { RankEightText }

\* The tiles the wall texts put "_" and "|" on: the block d5, e5, d4, e4,
\* and a8 on the first line.
SouthMenu == { P(3, 3), P(4, 3), P(3, 4), P(4, 4), P(0, 0) }

WestMenu == { P(3, 3), P(4, 3), P(3, 4), P(4, 4) }

WallTexts ==
    { Lines([tactical_board_str EXCEPT !.west = w, !.south = s]) :
        w \in SUBSET WestMenu, s \in SUBSET SouthMenu }

\* The pieces moved around the smothered king: the knight, the white king,
\* the pawn on h7.
SmotherOrigins == { P(6, 3), P(5, 1), P(7, 3), P(4, 7), P(7, 1) }

\* The tiles in front of the pawn on e2: e3 and e4.
TrapSquares == { P(4, 5), P(4, 4) }

\* The pieces of the fool's mate: the pawns on f2, e7 and g2, the queen on d8.
MateOrigins == { P(5, 6), P(4, 1), P(6, 6), P(3, 0) }

\* ------------------------------------------------------------------------
\* The game
\* ------------------------------------------------------------------------

VARIABLES strings, board, heap, history, redo_stack, completed, last, returned

vars == << strings, board, heap, history, redo_stack, completed, last, returned >>

\* The texts main() goes on to play: from_strs and Game.validate succeed.
Playable(texts) ==
    { text \in texts : FromStrsAccepts(text) /\ validate(from_strs(text)) }

Start(text) ==
    /\ strings = Lines(text)
    /\ board = from_strs(text)
    /\ heap = (0 :> InitialMoves(text))
    /\ history = << >>
    /\ redo_stack = << >>
    /\ completed = FALSE
    /\ last = Outcome(FALSE, FALSE, {}, "none", NoMove)
    /\ returned = NotReturned

Init == \E text \in Playable({ tactical_board_str }) : Start(text)

InitPhase == \E text \in Playable({ standard_board_str }) : Start(text)

\* One pass of the play_all loop: the loop runs while the game is not
\* completed, and a Failure or an exception of play_next ends it.
Running == ~completed /\ (last.ok \/ last.kind = "none")

Step(n) ==
    /\ board' = n.board
    /\ heap' = n.heap
    /\ history' = n.history
    /\ redo_stack' = redo_stack
    /\ completed' = n.completed
    /\ last' = n.last
    /\ UNCHANGED << strings, returned >>

Play(mv, moves) ==
    Step(play_next(board, heap, history, redo_stack, completed, mv, moves))

\* The destinations offered for the piece on o: every tile its generator
\* proposes and every tile next to it.
InputDests(b, o) ==
    { m.destination : m \in Range(Potentials(b, o)) } \cup Range(get_neighbours(o))

PlayMoveAt(o) ==
    LET moves == get_moves(board, o)
    IN \E d \in InputDests(board, o) : \E pl \in Player :
          Play(Move(pl, o, d), moves)

MoveStep(origins, plies) ==
    /\ Running /\ Len(history) + Len(redo_stack) < plies
    /\ \E o \in origins : board.nodes[o].contents # NoPiece /\ PlayMoveAt(o)

\* The promotions offered for the piece on o: to its far rank, and to the
\* rows given besides.
PlayPromotionAt(o, rows) ==
    LET moves == get_moves(board, o)
    IN \E d \in InputDests(board, o) : \E pr \in PromotionMenu :
          /\ d[2] = HomeRow(opponent(board.nodes[o].contents.owner)) \/ d[2] \in rows
          /\ Play(Promotion(board.nodes[o].contents.owner, o, d, pr), moves)

PromotionStep(origins, rows, plies) ==
    /\ Running /\ Len(history) + Len(redo_stack) < plies
    /\ \E o \in origins : board.nodes[o].contents # NoPiece /\ PlayPromotionAt(o, rows)

CastleStep(plies) ==
    /\ Running /\ Len(history) + Len(redo_stack) < plies
    /\ \E pl \in Player : \E mv \in { KingCastle(pl), QueenCastle(pl) } :
          Play(mv, get_moves(board, mv.origin))

PlaceWallStep(squares, plies) ==
    /\ Running /\ Len(history) + Len(redo_stack) < plies
    /\ \E pl \in Player : \E o \in squares : \E w \in WallSides :
          Play(PlaceWall(pl, o, w), << >>)

PlaceMineStep(squares, plies) ==
    /\ Running /\ Len(history) + Len(redo_stack) < plies
    /\ \E pl \in Player : \E o \in squares : Play(PlaceMine(pl, o), << >>)

PlaceTrapdoorStep(squares, plies) ==
    /\ Running /\ Len(history) + Len(redo_stack) < plies
    /\ \E pl \in Player : \E o \in squares : Play(PlaceTrapdoor(pl, o), << >>)

NullMoveStep(plies) ==
    /\ Running /\ Len(history) + Len(redo_stack) < plies
    /\ \E pl \in Player : Play(NullMove(pl), << >>)

PlayMove == MoveStep(Pos, MaxPly)

PlayPromotion == PromotionStep(Pos, {}, MaxPly)

PlayCastle == CastleStep(MaxPly)

PlayPlaceWall == PlaceWallStep(WallSquares, MaxPly)

PlayPlaceMine == PlaceMineStep(ObstacleSquares, MaxPly)

PlayPlaceTrapdoor == PlaceTrapdoorStep(ObstacleSquares, MaxPly)

PlayNullMove == NullMoveStep(MaxPly)

\* The source has no further move: play_next marks the game completed.
SourceExhausted ==
    /\ Running
    /\ completed' = TRUE
    /\ UNCHANGED << strings, board, heap, history, redo_stack, last, returned >>

Next ==
    \/ PlayMove
    \/ PlayPromotion
    \/ PlayCastle
    \/ PlayPlaceWall
    \/ PlayPlaceMine
    \/ PlayPlaceTrapdoor
    \/ PlayNullMove
    \/ SourceExhausted

Spec == Init /\ [][Next]_vars

\* Reading a board text: from_strs on the lines, before any game.
Unread == [nodes |-> << >>, walls |-> {}, state |-> << >>, turn |-> 0, im |-> 0]

InitText ==
    /\ strings \in BoardTexts
    /\ board = Unread
    /\ heap = (0 :> ZeroMoves)
    /\ history = << >>
    /\ redo_stack = << >>
    /\ completed = FALSE
    /\ last = Outcome(FALSE, FALSE, {}, "none", NoMove)
    /\ returned = NotReturned

\* from_strs on the lines as written: a Failure, or the board.
FromLines(lines) ==
    IF LinesAccepted(lines)
    THEN [ok |-> TRUE, board |-> from_strs(Tokens(lines)),
          initial_moves |-> InitialMoves(Tokens(lines))]
    ELSE [ok |-> FALSE, board |-> Unread, initial_moves |-> ZeroMoves]

FromStrsSuccess ==
    /\ board.turn = 0 /\ ~completed
    /\ FromLines(strings).ok
    /\ board' = FromLines(strings).board
    /\ heap' = (0 :> FromLines(strings).initial_moves)
    /\ UNCHANGED << strings, history, redo_stack, completed, last, returned >>

FromStrsFailure ==
    /\ board.turn = 0 /\ ~completed
    /\ ~FromLines(strings).ok
    /\ completed' = TRUE
    /\ UNCHANGED << strings, board, heap, history, redo_stack, last, returned >>

NextText ==
    \/ FromStrsSuccess
    \/ FromStrsFailure

SpecText == InitText /\ [][NextText]_vars

\* Reading board texts that differ in their walls.
InitWalls ==
    /\ strings \in WallTexts
    /\ board = Unread
    /\ heap = (0 :> ZeroMoves)
    /\ history = << >>
    /\ redo_stack = << >>
    /\ completed = FALSE
    /\ last = Outcome(FALSE, FALSE, {}, "none", NoMove)
    /\ returned = NotReturned

SpecWalls == InitWalls /\ [][NextText]_vars

\* Play around the smothered king.
InitSmother == \E text \in Playable({ smother_board_str }) : Start(text)

SmotherMove == MoveStep(SmotherOrigins, MaxSmotherPly)

NextSmother ==
    \/ SmotherMove
    \/ SourceExhausted

SpecSmother == InitSmother /\ [][NextSmother]_vars

\* The opening from the standard position with obstacles laid in front of
\* the pawn on e2, and the pawn's moves given as moves or as promotions.
TrapMove == MoveStep(PhaseOrigins, MaxTrapPly)

TrapPromotion == PromotionStep(PhaseOrigins, { 4, 5 }, MaxTrapPly)

TrapPlaceMine == PlaceMineStep(TrapSquares, MaxTrapPly)

TrapPlaceTrapdoor == PlaceTrapdoorStep(TrapSquares, MaxTrapPly)

TrapNullMove == NullMoveStep(MaxTrapPly)

NextTrap ==
    \/ TrapMove
    \/ TrapPromotion
    \/ TrapPlaceMine
    \/ TrapPlaceTrapdoor
    \/ TrapNullMove
    \/ SourceExhausted

SpecTrap == InitPhase /\ [][NextTrap]_vars

\* The same moves late in a game, the halfmove clock near its limit.
InitLate == \E text \in Playable({ late_board_str }) : Start(text)

SpecLate == InitLate /\ [][Next]_vars

\* The opening of a game from the standard position, where the obstacle
\* phase is played.
PhaseMove == MoveStep(PhaseOrigins, MaxPhasePly)

PhasePlaceMine == PlaceMineStep(PhaseSquares, MaxPhasePly)

PhasePlaceTrapdoor == PlaceTrapdoorStep(PhaseSquares, MaxPhasePly)

PhaseNullMove == NullMoveStep(MaxPhasePly)

NextPhase ==
    \/ PhaseMove
    \/ PhasePlaceMine
    \/ PhasePlaceTrapdoor
    \/ PhaseNullMove
    \/ SourceExhausted

SpecPhase == InitPhase /\ [][NextPhase]_vars

\* A game from the position around the obstacles.
InitHazard == \E text \in Playable({ hazard_board_str }) : Start(text)

HazardMove == MoveStep(Pos, MaxHazardPly)

HazardCastle == CastleStep(MaxHazardPly)

HazardPromotion == PromotionStep(HazardPromoters, AllRows, MaxHazardPly)

NextHazard ==
    \/ HazardMove
    \/ HazardCastle
    \/ HazardPromotion
    \/ SourceExhausted

SpecHazard == InitHazard /\ [][NextHazard]_vars

\* The end of play_all, after its loop.  A source that ran dry stays dry;
\* after a checkmate it may still hold a move.
Return(t) ==
    /\ board' = t.board
    /\ heap' = t.heap
    /\ returned' = t.returned
    /\ UNCHANGED << strings, history, redo_stack, completed, last >>

LoopOver == completed /\ returned = NotReturned

TrailingMove(origins) ==
    /\ LoopOver /\ "CHECKMATE" \in last.sig
    /\ \E o \in origins : \E d \in InputDests(board, o) : \E pl \in Player :
          /\ board.nodes[o].contents # NoPiece
          /\ Return(play_all_tail(board, heap, history, redo_stack,
                                Move(pl, o, d), get_moves(board, o)))

TrailingPlaceMine(squares) ==
    /\ LoopOver /\ "CHECKMATE" \in last.sig
    /\ \E o \in squares : \E pl \in Player :
          Return(play_all_tail(board, heap, history, redo_stack,
                             PlaceMine(pl, o), << >>))

TrailingNone ==
    /\ LoopOver
    /\ returned' = Returned("none", NoMove)
    /\ UNCHANGED << strings, board, heap, history, redo_stack, completed, last >>

\* A game from the standard position played with the pieces of the fool's
\* mate, and the end of play_all after it.
MateMove == MoveStep(MateOrigins, MaxMatePly)

MateTrailingMove == TrailingMove(MateOrigins)

MateTrailingPlaceMine == TrailingPlaceMine(PhaseSquares)

NextMate ==
    \/ MateMove
    \/ SourceExhausted
    \/ MateTrailingMove
    \/ MateTrailingPlaceMine
    \/ TrailingNone

SpecMate == InitPhase /\ [][NextMate]_vars

\* A game from the standard position whose moves are taken back and
\* replayed.
Game == GameOf(board, heap, history, redo_stack)

Restore(g) ==
    /\ board' = g.board
    /\ heap' = g.heap
    /\ history' = g.history
    /\ redo_stack' = g.redo_stack
    /\ UNCHANGED << strings, completed, last, returned >>

Undo == Restore(undo(Game))

Redo == Restore(redo(Game))

RewindMove == MoveStep(PhaseOrigins, MaxUndoPly)

RewindPlaceMine == PlaceMineStep(PhaseSquares, MaxUndoPly)

RewindPlaceTrapdoor == PlaceTrapdoorStep(PhaseSquares, MaxUndoPly)

RewindNullMove == NullMoveStep(MaxUndoPly)

NextUndo ==
    \/ RewindMove
    \/ RewindPlaceMine
    \/ RewindPlaceTrapdoor
    \/ RewindNullMove
    \/ Undo
    \/ Redo
    \/ SourceExhausted

SpecUndo == InitPhase /\ [][NextUndo]_vars

\* ------------------------------------------------------------------------
\* Properties
\* ------------------------------------------------------------------------

ObstacleKinds == { "PlaceMine", "PlaceTrapdoor", "NullMove" }

\* The last play_next call validated its move and applied it.
Applied == last.move # NoMove

\* The fields of a board, with the counters its initial_moves refers to.
BoardValue(b, h) ==
    [nodes |-> b.nodes, walls |-> b.walls, state |-> b.state, turn |-> b.turn,
     counters |-> h[b.im]]

\* C1: apply_move leaves its input board unchanged in every field, the
\* obstacle-placement counters included, for every kind of move: a
\* play_next step changes no board already stored in history, and the
\* board an obstacle move was applied to is pushed to history as it was.
C1_ApplyMoveLeavesInputUnchanged ==
    [][ /\ \A i \in 1 .. Len(history) :
              BoardValue(history'[i].board, heap') = BoardValue(history[i].board, heap)
        /\ (last'.move # NoMove /\ Len(history') = Len(history) + 1
            /\ last'.kind \in ObstacleKinds)
              => BoardValue(history'[Len(history')].board, heap')
                    = BoardValue(board, heap) ]_vars

WallFlags(b) == Cardinality({ f \in b.walls : f[2] \in {"SOUTH", "WEST"} })

\* C2: after any sequence of accepted moves, the SOUTH and WEST flags on
\* the board plus the two wall reserves add up to 6.
C2_WallConservation ==
    WallFlags(board) + board.state.walls[WHITE] + board.state.walls[BLACK] = 6

C2_Witness ==
    /\ Len(history) = 2
    /\ history[1].move.type = "PlaceWall" /\ history[2].move.type = "PlaceWall"
    /\ WallFlags(board) = WallFlags(history[1].board) + 2

OneKingEach(b) == \A pl \in Player : Cardinality(KingsOf(b.nodes, pl)) = 1

KingAttacked(b, pl) ==
    \E k \in KingsOf(b.nodes, pl) : being_attacked_at(b, k, opponent(pl)) # {}

Dist(a, b) ==
    IF Abs(a[1] - b[1]) > Abs(a[2] - b[2]) THEN Abs(a[1] - b[1]) ELSE Abs(a[2] - b[2])

\* Some single-tile step of the straight path from one tile to another is
\* wall-blocked.
PathCrossesWall(walls, from, to) ==
    \E k \in 0 .. Dist(from, to) - 1 :
        wall_blocked(walls,
                     P(from[1] + k * norm(PosSub(to, from))[1],
                       from[2] + k * norm(PosSub(to, from))[2]),
                     norm(PosSub(to, from)))

MoveCrossesWall(prior, mv) ==
    IF IsCastle(mv)
    THEN \/ PathCrossesWall(prior.walls, mv.origin, mv.destination)
         \/ PathCrossesWall(prior.walls, rook_move(mv).origin, rook_move(mv).destination)
    ELSE /\ prior.nodes[mv.origin].contents.name # "knight"
         /\ PathCrossesWall(prior.walls, mv.origin, mv.destination)

\* C4: no accepted Move, Promotion, en-passant capture or Castle of a
\* non-knight piece takes a relocated piece over a wall-blocked step.
C4_NoAcceptedMoveCrossesWall ==
    (Applied /\ last.kind \in {"Move", "Promotion", "KingCastle", "QueenCastle"})
        => ~MoveCrossesWall(history[Len(history)].board, last.move)

\* The number of times the layout of the current board has occurred: the
\* board itself and the equal boards in history.
Occurrences ==
    1 + Cardinality({ i \in 1 .. Len(history) : BoardEq(board, history[i].board) })

\* C5: play_next signals THREEFOLD_AVAILABLE when the board it produces is
\* the third occurrence of its layout, and not while it is only the second.
C5_ThreefoldAtThirdOccurrence ==
    last.ok => (("THREEFOLD_AVAILABLE" \in last.sig) <=> (Occurrences >= 3))

\* The obstacle phase is closed after the first n moves of history: four
\* plies have been applied, or one of them was an ordinary move.
PhaseClosedAfter(n) ==
    n >= 4 \/ \E i \in 1 .. n : history[i].move.type \notin ObstacleKinds

\* C6: once the obstacle phase has closed, no PlaceMine, PlaceTrapdoor or
\* NullMove is accepted.
C6_ClosedPhaseRejectsObstacles ==
    (Applied /\ last.kind \in ObstacleKinds) => ~PhaseClosedAfter(Len(history) - 1)

\* C7: validate_move is a pure check: a play_next call whose move is
\* rejected leaves the board, with its counters, as it was.
C7_RejectedMoveChangesNothing ==
    [][ (last'.kind # "none" /\ last'.move = NoMove)
            => BoardValue(board', heap') = BoardValue(board, heap) ]_vars

C9_ExactlyOneKingEach == OneKingEach(board)

Mined(b) == { p \in Pos : b.nodes[p].mined }

Trapdoors(b) == { p \in Pos : b.nodes[p].trapdoor \in {"HIDDEN", "OPEN"} }

PlayedStep ==
    /\ last'.ok /\ last'.move # NoMove
    /\ Len(history') = Len(history) + 1
    /\ redo_stack' = redo_stack

\* C12: after play_next has applied a move to board B, undo() makes the
\* current board equal to B as it was before the move in every field, the
\* obstacle-placement counters included, takes exactly the top entry off
\* history and pushes exactly that entry onto the redo stack.
C12_UndoRestoresPriorBoard ==
    [][ PlayedStep =>
          /\ BoardValue(undo(GameOf(board', heap', history', redo_stack')).board,
                        undo(GameOf(board', heap', history', redo_stack')).heap)
                = BoardValue(board, heap)
          /\ undo(GameOf(board', heap', history', redo_stack')).history = history
          /\ undo(GameOf(board', heap', history', redo_stack')).redo_stack
                = Append(redo_stack, history'[Len(history')]) ]_vars

\* C13: after a successful play_next, undo() followed by redo() leaves the
\* current board, the history stack and the redo stack as they were before
\* the undo().
C13_RedoInvertsUndo ==
    [][ PlayedStep =>
          /\ BoardValue(redo(undo(GameOf(board', heap', history', redo_stack'))).board,
                        redo(undo(GameOf(board', heap', history', redo_stack'))).heap)
                = BoardValue(board', heap')
          /\ redo(undo(GameOf(board', heap', history', redo_stack'))).history = history'
          /\ redo(undo(GameOf(board', heap', history', redo_stack'))).redo_stack
                = redo_stack' ]_vars

\* The last play_next call relocated a piece by move_piece.
Landed == Applied /\ last.kind \in {"Move", "Promotion"}

\* The board the last move was played on.
Prior == history[Len(history)].board

\* The tile an en-passant capture takes its pawn from; NoPos otherwise.
EnPassantVictim(prior, mv) ==
    IF /\ prior.nodes[mv.origin].contents.name = "pawn"
       /\ Abs(mv.origin[2] - mv.destination[2]) # 2
       /\ prior.state.enpassant = mv.destination
    THEN P(mv.destination[1], mv.origin[2])
    ELSE NoPos

\* The occupant of tile t once the piece has been relocated.
Carried(prior, mv, t) ==
    IF t = mv.origin \/ t = EnPassantVictim(prior, mv) THEN NoPiece
    ELSE prior.nodes[t].contents

\* C11: when a piece lands on a mined tile, the mover is removed, the mine
\* flag is cleared, and the occupant of each neighbouring tile is removed
\* if and only if wall_blocked(mine tile, direction to it) is false.
C11_MineBlastRespectsWalls ==
    (Landed /\ Prior.nodes[last.move.destination].mined) =>
        /\ board.nodes[last.move.destination].contents = NoPiece
        /\ ~board.nodes[last.move.destination].mined
        /\ \A t \in Range(get_neighbours(last.move.destination)) :
              board.nodes[t].contents =
                 IF wall_blocked(Prior.walls, last.move.destination,
                                 norm(PosSub(t, last.move.destination)))
                 THEN Carried(Prior, last.move, t)
                 ELSE NoPiece

\* A step in which play_next applied a move: every applied move leaves a
\* new current board.
AppliedStep == last'.move # NoMove /\ board' # board

\* C14: a play_next that applies a move pushes exactly one history entry,
\* holding the board as it was before the move and the applied move; a
\* play_next that rejects its move or gets none pushes nothing.
C14_OneHistoryEntryPerAppliedMove ==
    [][ IF AppliedStep
        THEN /\ Len(history') = Len(history) + 1
             /\ SubSeq(history', 1, Len(history)) = history
             /\ history'[Len(history')].move = last'.move
             /\ BoardValue(history'[Len(history')].board, heap')
                   = BoardValue(board, heap)
        ELSE history' = history ]_vars

\* The board that followed the i-th board of history.
BoardAfter(i) == IF i = Len(history) THEN board ELSE history[i + 1].board

\* C18: every applied move, of every kind, flips the active player and
\* adds exactly 1 to the turn counter: the active player alternates from
\* board to board and the turn counter is 1 plus the number of applied
\* moves.
C18_PlayerFlipsTurnCounts ==
    /\ board.turn = 1 + Len(history)
    /\ \A i \in 1 .. Len(history) :
          /\ BoardAfter(i).state.player = opponent(history[i].board.state.player)
          /\ BoardAfter(i).turn = history[i].board.turn + 1

C18_Witness ==
    /\ Len(history) = 3 /\ board.turn = 4
    /\ { history[1].move.type, history[2].move.type } = {"NullMove", "PlaceMine"}
    /\ history[3].move.type = "Move"
    /\ board.state.player = opponent(history[1].board.state.player)

\* The cases in which the halfmove clock goes back to 0: a capture, a pawn
\* move, a mine or trapdoor placement, a landing on a mine or a trapdoor.
ClockResets(prior, mv) ==
    \/ mv.type \in {"PlaceMine", "PlaceTrapdoor"}
    \/ /\ mv.type \in {"Move", "SemiPromotion", "Promotion"}
       /\ \/ prior.nodes[mv.destination].contents # NoPiece
          \/ prior.nodes[mv.origin].contents.name = "pawn"
          \/ prior.nodes[mv.destination].mined
          \/ prior.nodes[mv.destination].trapdoor # "NONE"

KingPath(mv) ==
    { t \in Pos : /\ t[2] = mv.origin[2]
                  /\ t # mv.origin
                  /\ Abs(t[1] - mv.origin[1]) <= Abs(mv.destination[1] - mv.origin[1])
                  /\ Sgn(t[1] - mv.origin[1]) = Sgn(mv.destination[1] - mv.origin[1]) }

CastleRight(mv) == IF mv.type = "KingCastle" THEN "king" ELSE "queen"

\* C15: a KingCastle or QueenCastle is accepted only if the player's
\* matching castling-right flag is true and every tile on the king's path,
\* its destination included, is unoccupied and not attacked by the opponent.
C15_CastleNeedsRightAndSafePath ==
    (Applied /\ IsCastle(last.move)) =>
        /\ Prior.state.castling[last.move.player][CastleRight(last.move)]
        /\ \A t \in KingPath(last.move) :
              /\ Prior.nodes[t].contents = NoPiece
              /\ being_attacked_at(Prior, t, opponent(last.move.player)) = {}

\* C16: validate_move accepts a Promotion only when the moving piece is a
\* pawn, the destination is that pawn's far rank and the new piece kind is
\* neither king nor pawn.
C16_PromotionOnlyOfPawnOnFarRank ==
    (Applied /\ last.kind = "Promotion") =>
        /\ Prior.nodes[last.move.origin].contents.name = "pawn"
        /\ last.move.destination[2] =
              HomeRow(opponent(Prior.nodes[last.move.origin].contents.owner))
        /\ last.move.promotion \notin {"king", "pawn"}

\* The i-th applied move took a piece to a tile holding a trapdoor in one
\* of the given states.
LandsOnTrapdoor(i, states) ==
    /\ history[i].move.type \in {"Move", "SemiPromotion", "Promotion"}
    /\ history[i].board.nodes[history[i].move.destination].trapdoor \in states

\* C19: a HIDDEN trapdoor becomes OPEN the first time a piece lands on it
\* and that piece is removed; an OPEN trapdoor stays OPEN in every later
\* board, and every piece that later lands on it is removed as well.
C19_TrapdoorOpensOnceAndSwallows ==
    \A i \in 1 .. Len(history) :
        /\ LandsOnTrapdoor(i, {"HIDDEN", "OPEN"}) =>
              /\ BoardAfter(i).nodes[history[i].move.destination].trapdoor = "OPEN"
              /\ BoardAfter(i).nodes[history[i].move.destination].contents = NoPiece
        /\ \A t \in Pos :
              history[i].board.nodes[t].trapdoor = "OPEN" =>
                  BoardAfter(i).nodes[t].trapdoor = "OPEN"

\* play_next was given a move and validate_move rejected it.
RejectedMove == last.kind # "none" /\ ~last.ok /\ last.move = NoMove

\* C20: when the move source supplies a move that validate_move rejects,
\* of any kind, play_next returns a Failure carrying the move's text and
\* raises no exception.
C20_RejectionReturnsFailure == RejectedMove => ~last.raised

FoolsMate ==
    << Move(WHITE, P(5, 6), P(5, 5)), Move(BLACK, P(4, 1), P(4, 3)),
       Move(WHITE, P(6, 6), P(6, 4)), Move(BLACK, P(3, 0), P(7, 4)) >>

Played == [i \in 1 .. Len(history) |-> history[i].move]

\* C22: from the standard start, after f2-f3, e7-e5, g2-g4, d8-h4 the
\* board is a checkmate of White: checkmate(board) returns White, and the
\* play_next call applying d8-h4 signals CHECKMATE and completes the game.
C22_FoolsMate ==
    (Played = FoolsMate /\ returned = NotReturned) =>
        /\ checkmate(board) = [raised |-> FALSE, player |-> WHITE]
        /\ last.ok /\ "CHECKMATE" \in last.sig
        /\ completed

C22_Witness == Played = FoolsMate /\ last.move = FoolsMate[4]

\* The game was completed by a play_next that signalled CHECKMATE.
Mated == completed /\ "CHECKMATE" \in last.sig

\* C21: once play_next has signalled CHECKMATE the game is completed and
\* no further move is applied to the board: the board stays the one the
\* mating move produced.  If the source still yields a move, play_all
\* returns the IllegalMove failure naming it; if the source is exhausted,
\* play_all returns no failure.
C21_NothingPlayedAfterCheckmate ==
    Mated =>
        /\ Len(history) > 0 /\ history[Len(history)].move = last.move
        /\ board.nodes = apply_move(Prior, last.move).nodes
        /\ board.state = apply_move(Prior, last.move).state
        /\ board.turn = apply_move(Prior, last.move).turn
        /\ returned.status # "running" =>
              returned.status = IF returned.move = NoMove THEN "none" ELSE "failure"

\* C23: stalemate(board) returns a player if and only if neither player is
\* in check and at least one player has no legal move with any of their
\* pieces; with a player in check it returns none.
C23_StalemateIffNoCheckNoMoves ==
    (stalemate(board) # 0) <=>
        (in_check_any(board) = 0 /\ \E pl \in Player : ~HasMoves(board, pl))

\* C27: checkmate(board) reports player P only if P is in check and has no
\* legal reply: no king move, no capture of the checking piece and no
\* interposition is among the legal moves of P's pieces.
C27_CheckmateMeansNoReply ==
    checkmate(board).player # 0 =>
        /\ in_check(board, checkmate(board).player)
        /\ ~HasMoves(board, checkmate(board).player)

\* C24: validate_move rejects a PlaceMine on a tile that is already mined
\* and a PlaceTrapdoor on a tile that already has a trapdoor, hidden or
\* open: no such placement is applied.
C24_NoObstacleOnObstacle ==
    /\ (Applied /\ last.move.type = "PlaceMine") =>
            ~Prior.nodes[last.move.origin].mined
    /\ (Applied /\ last.move.type = "PlaceTrapdoor") =>
            Prior.nodes[last.move.origin].trapdoor = "NONE"

\* C28: each player's wall reserve stays within 0..3 after any sequence
\* of accepted moves; a PlaceWall by a player with reserve 0 is rejected.
C28_WallReserveInRange ==
    \A pl \in Player : board.state.walls[pl] \in 0 .. 3

\* C30: validate_move accepts a piece move (Move, Promotion or castle)
\* only if the piece on its origin belongs to the board's active player.
C30_OnlyActivePlayerMoves ==
    (Applied /\ last.move.type \in {"Move", "Promotion", "KingCastle", "QueenCastle"}) =>
        /\ Prior.nodes[last.move.origin].contents # NoPiece
        /\ Prior.nodes[last.move.origin].contents.owner = Prior.state.player

\* C29: in every board reached through play_next the halfmove clock is
\* between 0 and 100 inclusive.
C29_ClockAtMostHundred ==
    Len(history) > 0 => board.state.clock \in 0 .. 100

\* C25: for every board text the parser accepts, canonical() of the
\* parsed board is exactly the text, and no other accepted text parses to
\* the same board.
C25_ParseSerializeRoundTrip ==
    board.turn > 0 =>
        /\ BoardCanonical(board) = strings
        /\ \A other \in BoardTexts :
              (FromLines(other).ok /\ other # strings) =>
                  FromLines(other).board # board

\* C26: every move validate_move accepts, of any kind, yields a board in
\* which the mover's own king is not in check, so play_next never returns
\* a signal set containing ILLEGAL_MOVE.
C26_NoAcceptedMoveLeavesMoverInCheck ==
    (Applied /\ last.ok) =>
        /\ ~in_check(board, last.move.player)
        /\ "ILLEGAL_MOVE" \notin last.sig

\* The obstacle-phase plies played so far.
ObstaclePlies ==
    Cardinality({ i \in 1 .. Len(history) : history[i].move.type \in ObstacleKinds })

\* Ordinary moves a source can supply on the current board.
OrdinaryInputs ==
    UNION { { Move(pl, o, d) : pl \in Player, d \in InputDests(board, o) } :
               o \in PhaseOrigins }
    \cup { Promotion(pl, o, P(o[1], HomeRow(opponent(pl))), "queen") :
               pl \in Player, o \in PhaseOrigins }
    \cup { KingCastle(pl) : pl \in Player } \cup { QueenCastle(pl) : pl \in Player }
    \cup { PlaceWall(pl, o, w) : pl \in Player, o \in PhaseSquares, w \in WallSides }

CastleRookFrom(mv) == P(IF mv.type = "QueenCastle" THEN 0 ELSE 7, HomeRow(mv.player))

CastleRookTo(mv) == P(IF mv.type = "QueenCastle" THEN 3 ELSE 5, HomeRow(mv.player))

CastleKingTo(mv) == P(IF mv.type = "QueenCastle" THEN 2 ELSE 6, HomeRow(mv.player))

\* C32: an applied castle takes the king from file e to file g and the rook
\* from file h to file f (king side), or the king to file c and the rook
\* from file a to file d (queen side), on the player's home row; the king
\* and the rook are then both on the board and their origins are empty.
C32_CastleRelocatesKingAndRook ==
    (Applied /\ IsCastle(last.move)) =>
        LET mv == last.move
            prior == history[Len(history)].board
            king == prior.nodes[CastleOrigin(mv.player)].contents
            rook == prior.nodes[CastleRookFrom(mv)].contents
        IN /\ board.nodes[CastleKingTo(mv)].contents = king
           /\ board.nodes[CastleRookTo(mv)].contents = rook
           /\ board.nodes[CastleOrigin(mv.player)].contents = NoPiece
           /\ board.nodes[CastleRookFrom(mv)].contents = NoPiece

\* The i-th applied move moved a king: a king step or either castle.
KingMoved(i) ==
    /\ history[i].move.type \in { "Move", "KingCastle", "QueenCastle" }
    /\ history[i].board.nodes[history[i].move.origin].contents # NoPiece
    /\ history[i].board.nodes[history[i].move.origin].contents.name = "king"

NoCastlingRight(b, pl) == ~b.state.castling[pl].king /\ ~b.state.castling[pl].queen

\* C33: once a player's king has moved, by a king step or by either castle,
\* both castling rights of that player are false in the resulting board and
\* in every later board, and a right that is false stays false.
C33_KingMoveEndsCastlingRights ==
    \A i \in 1 .. Len(history) :
        /\ KingMoved(i) =>
              \A j \in i .. Len(history) :
                  NoCastlingRight(BoardAfter(j),
                                  history[i].board.nodes[history[i].move.origin].contents.owner)
        /\ \A pl \in Player :
              /\ ~history[i].board.state.castling[pl].king
                     => ~BoardAfter(i).state.castling[pl].king
              /\ ~history[i].board.state.castling[pl].queen
                     => ~BoardAfter(i).state.castling[pl].queen

\* C34: after a piece move is applied, the en-passant target is the tile
\* the pawn skipped if the move was a pawn double step, and is none after
\* every other piece move, a pawn capturing en passant included.
C34_EnPassantTargetAfterMove ==
    (Applied /\ last.move.type = "Move") =>
        LET mv == last.move
            piece == history[Len(history)].board.nodes[mv.origin].contents
        IN board.state.enpassant =
              IF piece # NoPiece /\ piece.name = "pawn"
                    /\ Abs(mv.origin[2] - mv.destination[2]) = 2
              THEN P(mv.origin[1], (mv.origin[2] + mv.destination[2]) \div 2)
              ELSE NoPos

\* The tests from_strs makes before it calls the constructor all pass.
ChecksPass(lines) ==
    /\ \A y \in 1 .. 8 : LineAccepted(board_list_transform(lines.rows[y]), y - 1)
    /\ StatusMatches(lines.status)
    /\ ClockReadable(lines.status)

\* The straight steps the walls of b block are the ones across the edges
\* the text marks: "_" on a tile is the edge to the tile below it in the
\* text (row y + 1), "|" the edge to the tile on its left.
StepsMatchText(b, text) ==
    \A p \in Pos :
        /\ p[2] < 7 =>
              /\ wall_blocked(b.walls, p, P(0, 1)) <=> p \in text.south
              /\ wall_blocked(b.walls, P(p[1], p[2] + 1), P(0, -1)) <=> p \in text.south
        /\ p[1] > 0 =>
              /\ wall_blocked(b.walls, p, P(-1, 0)) <=> p \in text.west
              /\ wall_blocked(b.walls, P(p[1] - 1, p[2]), P(1, 0)) <=> p \in text.west

\* C35: for every board text that passes the tests of from_strs the
\* construction of the board, wall normalisation included, ends without an
\* error, and each "_" on a tile blocks the step between that tile and the
\* tile below it in the text, in both directions, and no other straight
\* step.
C35_SouthWallBlocksStepBelow ==
    /\ ChecksPass(strings) => ~NormaliseRaises(TextWalls(Tokens(strings)))
    /\ board.turn = 1 => StepsMatchText(board, Tokens(strings))

\* The steps to a tile next to p, orthogonally or diagonally.
AdjacentSteps == Range(StraightDirs) \cup Range(DiagDirs)

\* C36: on a normalised board a wall blocks a step between two adjacent
\* tiles of the board in both directions or in neither.
C36_WallBlockedSymmetric ==
    board.turn = 1 =>
        \A a \in Pos : \A d \in AdjacentSteps :
            on_board(PosAdd(a, d)) =>
                (wall_blocked(board.walls, a, d)
                    <=> wall_blocked(board.walls, PosAdd(a, d), P(-d[1], -d[2])))

\* A diagonal step is blocked both ways by a wall running along two tiles,
\* while the diagonal next to it stays open.
C36_Witness ==
    /\ board.turn = 1
    /\ WallsAt(board.walls, P(3, 4)) = { "SOUTH" }
    /\ wall_blocked(board.walls, P(3, 4), P(1, -1))
    /\ wall_blocked(board.walls, P(4, 3), P(-1, 1))
    /\ ~wall_blocked(board.walls, P(4, 4), P(1, -1))

\* The tile carries the wall flag of that side.
Carries(b, pos, side) == <<pos, side>> \in b.walls

RowSide(d) == IF d[2] < 0 THEN "SOUTH" ELSE "NORTH"

ColumnSide(d) == IF d[1] > 0 THEN "EAST" ELSE "WEST"

\* The four wall configurations that close the diagonal step d from s.
DiagonalClosed(b, s, d) ==
    LET dest == PosAdd(s, d)
    IN \/ Carries(b, s, RowSide(d)) /\ Carries(b, s, ColumnSide(d))
       \/ /\ Carries(b, dest, alternate(RowSide(d)))
          /\ Carries(b, dest, alternate(ColumnSide(d)))
       \/ Carries(b, s, RowSide(d)) /\ Carries(b, P(dest[1], s[2]), RowSide(d))
       \/ Carries(b, s, ColumnSide(d)) /\ Carries(b, P(s[1], dest[2]), ColumnSide(d))

\* C37: a diagonal step from s to a tile of the board is blocked exactly
\* when s carries both walls facing the step, or the destination carries
\* both walls facing back, or s and its neighbour in the destination's
\* column both carry the wall on the row-change side, or s and its
\* neighbour in the destination's row both carry the wall on the
\* column-change side.
C37_DiagonalBlockedExactly ==
    board.turn = 1 =>
        \A s \in Pos : \A d \in Range(DiagDirs) :
            on_board(PosAdd(s, d)) =>
                (wall_blocked(board.walls, s, d) <=> DiagonalClosed(board, s, d))

\* The step d4-e5 is closed only by the walls east of d4 and of d5.
C37_Witness ==
    /\ board.turn = 1
    /\ WallsAt(board.walls, P(3, 4)) = { "EAST" }
    /\ WallsAt(board.walls, P(3, 3)) = { "EAST" }
    /\ wall_blocked(board.walls, P(3, 4), P(1, -1))

\* C38: attack detection agrees with move generation: a king or a pawn of
\* the attacking player next to a tile, with a wall blocking its step onto
\* that tile, is not listed by being_attacked_at as an attacker of the
\* tile.
C38_WalledNeighbourIsNoAttacker ==
    \A s \in Pos : \A q \in Player :
        \A p \in being_attacked_at(board, s, q) :
            (p \in Range(get_neighbours(s))
             /\ board.nodes[p].contents.name \in { "king", "pawn" })
                => ~wall_blocked(board.walls, p, PosSub(s, p))

\* C39: checkmate() returns a player or none, without raising, on every
\* board that has both kings, also when the checked king has no escape
\* tile, a knight is the only checking piece and the checked player has a
\* wall in reserve.
C39_CheckmateNeverRaises ==
    (HasKing(board.nodes, WHITE) /\ HasKing(board.nodes, BLACK))
        => ~checkmate(board).raised

\* C40: in every board reached from the standard start by accepted moves
\* no tile holds a piece together with a mine or with a trapdoor, hidden
\* or open.
C40_NoPieceOnObstacle ==
    \A p \in Pos :
        board.nodes[p].contents # NoPiece =>
            (~board.nodes[p].mined /\ board.nodes[p].trapdoor = "NONE")

====
